---------------------------- MODULE Spec2Model ----------------------------
(***************************************************************************)
(* Verification model of the asynchronous network core of soa:            *)
(*   - HttpResponseParser (http_client.cc, in src/unnamed/part_001)       *)
(*   - HttpConnection / HttpClient, the pooled HTTP client (part_001)     *)
(*   - ClientTcpSocket (tcp_socket.cc, in src/service/http_parsers.h)     *)
(*   - EndpointBase (endpoint_base.cc, in src/service/sqs.cc)             *)
(*   - RestRequestRouter and RestRequestParsingContext (part_001 and      *)
(*     src/service/in_process_rest_connection.h)                          *)
(*   - StreamJsonPrintingContext and StringJsonPrintingContext            *)
(*     (json_printing.cc, in src/service/rest_request_fwd.h)              *)
(* Each component has its own specifications (SpecParser, SpecPool,       *)
(* SpecSocket, SpecEndpoint, SpecRouter, SpecContext, SpecJson and their  *)
(* variants); the variables of the other components stay at their initial *)
(* values.                                                                 *)
(***************************************************************************)
EXTENDS Integers, Sequences, FiniteSets, TLC

VARIABLES
    \* ---- HttpResponseParser ----
    stream,        \* the byte stream the peer sends (fixed per behaviour)
    pending,       \* the bytes of stream not yet fed
    parser,        \* [state_, buffer_, remainingBody_]
    events,        \* the callbacks emitted so far, in order
    \* ---- ClientTcpSocket ----
    sock,          \* the members of the socket, its fds and the kernel's side
    batch,         \* events returned by epoll_wait, not yet dispatched
    producer,      \* a thread inside write(): [pc, msg]
    nextMsg,       \* next message a producer submits
    waiter,        \* a thread inside waitState(DISCONNECTED): [pc, old]
    \* ---- HttpClient ----
    pool,          \* the members of the client and of its connections
    lastEnqueue,   \* what the enqueueRequest of the last step returned
    nextReq,       \* next request a caller submits
    \* ---- EndpointBase ----
    ep,            \* the members of the endpoint, its threads and the kernel's side
    \* ---- RestRequestRouter ----
    rt,            \* the route tree, the last request and what it gave
    ctx,           \* a parsing context's objects and its last getObject call
    \* ---- JSON printing contexts ----
    json           \* a stream context and a string context given the same calls

parserVars == <<stream, pending, parser, events>>
socketVars == <<sock, batch, producer, nextMsg, waiter>>
poolVars == <<pool, lastEnqueue, nextReq>>
endpointVars == <<ep>>
routerVars == <<rt, ctx, json>>
laterVars == <<endpointVars, routerVars>>
vars == <<stream, pending, parser, events, sock, batch, producer, nextMsg, waiter,
          pool, lastEnqueue, nextReq, ep, rt, ctx, json>>

(***************************************************************************)
(*                         HTTP RESPONSE PARSER                            *)
(***************************************************************************)

CR == "\r"
LF == "\n"
SP == " "

\* Bytes data[ptr .. dataSize-1] (ptr is 0-based as in the source).
Sub(data, ptr) == SubSeq(data, ptr + 1, Len(data))

Min(a, b) == IF a < b THEN a ELSE b

\* tryPush of a bounded queue (the ring buffer behind threadBuffer_ and
\* queue_): refuses when the queue holds cap elements.
TryPush(q, cap, x) ==
    IF Len(q) < cap THEN [ok |-> TRUE, q |-> Append(q, x)]
    ELSE [ok |-> FALSE, q |-> q]

Digits == <<"0", "1", "2", "3", "4", "5", "6", "7", "8", "9">>
IsDigit(c) == \E i \in 1..10 : Digits[i] = c
DigitVal(c) == (CHOOSE i \in 1..10 : Digits[i] = c) - 1

\* ML::antoi(begin, end): ASCII decimal; a non-digit raises.
RECURSIVE AntoiAcc(_, _)
AntoiAcc(s, acc) ==
    IF s = <<>> THEN acc
    ELSE IF ~IsDigit(Head(s)) THEN -1
    ELSE AntoiAcc(Tail(s), acc * 10 + DigitVal(Head(s)))
Antoi(s) == AntoiAcc(s, 0)

\* strncasecmp folds case: the letters of "Content-Length".
ToLower(c) ==
    CASE c = "C" -> "c" [] c = "O" -> "o" [] c = "N" -> "n" [] c = "T" -> "t"
      [] c = "E" -> "e" [] c = "L" -> "l" [] c = "G" -> "g" [] c = "H" -> "h"
      [] OTHER -> c

ContentLengthStr ==
    <<"c", "o", "n", "t", "e", "n", "t", "-", "l", "e", "n", "g", "t", "h">>
HttpSlash == <<"H", "T", "T", "P", "/">>

\* The lambda skipToChar of feed: advance ptr to the first c; with throwOnEol
\* a CR or LF met first raises.
RECURSIVE SkipToChar(_, _, _, _)
SkipToChar(data, ptr, c, throwOnEol) ==
    IF ptr >= Len(data) THEN [found |-> FALSE, threw |-> FALSE, ptr |-> ptr]
    ELSE IF data[ptr + 1] = c THEN [found |-> TRUE, threw |-> FALSE, ptr |-> ptr]
    ELSE IF throwOnEol /\ (data[ptr + 1] = CR \/ data[ptr + 1] = LF)
         THEN [found |-> FALSE, threw |-> TRUE, ptr |-> ptr]
    ELSE SkipToChar(data, ptr + 1, c, throwOnEol)

\* The lambda skipChar of handleHeader: skip a run of c.
RECURSIVE SkipChar(_, _, _)
SkipChar(data, ptr, c) ==
    IF ptr < Len(data) /\ data[ptr + 1] = c THEN SkipChar(data, ptr + 1, c)
    ELSE ptr

\* The state feed leaves behind and what it emitted.
Ret(st, buf, rem, ev) ==
    [state_ |-> st, buffer_ |-> buf, remainingBody_ |-> rem, ev |-> ev]

\* feed left by an exception: the members keep their values.
Throw(st, buf, rem, ev, msg) ==
    Ret(st, buf, rem, Append(ev, <<"exception", msg>>))

\* HttpResponseParser::handleHeader: a line starting with Content-Length
\* sets remainingBody_; then onHeader.
HandleHeader(line, rem, ev) ==
    LET isCL == Len(line) >= 14
                /\ [i \in 1..14 |-> ToLower(line[i])] = ContentLengthStr
        p1 == SkipChar(line, 14, SP)
        p2 == SkipToChar(line, p1, ":", FALSE).ptr + 1
        p3 == SkipChar(line, p2, SP)
        val == IF p3 <= Len(line) THEN Antoi(Sub(line, p3)) ELSE -1
    IN  IF isCL /\ val < 0
        THEN [threw |-> TRUE, rem |-> rem, ev |-> ev]
        ELSE [threw |-> FALSE,
              rem |-> IF isCL THEN val ELSE rem,
              ev |-> Append(ev, <<"header", line>>)]

RECURSIVE FeedLoop(_, _, _, _, _, _, _)

\* state_ == 0: the status line.
StatusLine(data, fromBuffer, ptr, buf, rem, ev) ==
    LET n == Len(data)
        s1 == SkipToChar(data, ptr + 5, SP, TRUE)
        versionEnd == s1.ptr
        codeStart == versionEnd + 1
        s2 == SkipToChar(data, codeStart, SP, TRUE)
        codeEnd == s2.ptr
        code == Antoi(SubSeq(data, codeStart + 1, codeEnd))
        s3 == SkipToChar(data, codeEnd, CR, FALSE)
        p4 == s3.ptr + 1
        p5 == p4 + 1
        ev1 == Append(ev, <<"start", SubSeq(data, 1, versionEnd), code>>)
    IN  IF n - ptr < 16
            THEN Ret(0, IF fromBuffer THEN buf ELSE Sub(data, ptr), rem, ev)
        ELSE IF SubSeq(data, ptr + 1, ptr + 5) # HttpSlash
            THEN Throw(0, buf, rem, ev, "version must start with 'HTTP/'")
        ELSE IF s1.threw THEN Throw(0, buf, rem, ev, "unexpected end of line")
        ELSE IF ~s1.found THEN Throw(0, buf, rem, ev, "version too long")
        ELSE IF s2.threw THEN Throw(0, buf, rem, ev, "unexpected end of line")
        ELSE IF ~s2.found THEN Throw(0, buf, rem, ev, "code too long")
        ELSE IF code < 0 THEN Throw(0, buf, rem, ev, "antoi")
        ELSE IF ~s3.found
            THEN Ret(0, IF fromBuffer THEN buf ELSE Sub(data, s3.ptr), rem, ev)
        ELSE IF p4 = n THEN Ret(0, buf, rem, ev)
        ELSE IF data[p4 + 1] # LF THEN Throw(0, buf, rem, ev, "expected LF")
        ELSE IF p5 = n THEN Ret(1, <<>>, rem, ev1)
        ELSE FeedLoop(data, fromBuffer, p5, 1, buf, rem, ev1)

\* state_ == 1: the header lines, then the empty line.
RECURSIVE HeaderStage(_, _, _, _, _, _)
HeaderStage(data, fromBuffer, ptr, buf, rem, ev) ==
    LET n == Len(data)
        headerPtr == ptr
        stash == IF headerPtr > 0 \/ ~fromBuffer THEN Sub(data, headerPtr) ELSE buf
        s1 == SkipToChar(data, ptr, ":", TRUE)
        s2 == SkipToChar(data, s1.ptr, CR, FALSE)
        p1 == s2.ptr + 1
        p2 == p1 + 1
        hh == HandleHeader(SubSeq(data, headerPtr + 1, p2 - 2), rem, ev)
    IN  IF data[ptr + 1] # CR
        THEN IF s1.threw THEN Throw(1, buf, rem, ev, "unexpected end of line")
             ELSE IF ~s1.found \/ ~s2.found THEN Ret(1, stash, rem, ev)
             ELSE IF p1 = n THEN Ret(1, stash, rem, ev)
             ELSE IF data[p1 + 1] # LF THEN Throw(1, buf, rem, ev, "expected LF")
             ELSE IF hh.threw THEN Throw(1, buf, rem, ev, "antoi")
             ELSE IF p2 = n
                 THEN Ret(1, IF fromBuffer THEN <<>> ELSE buf, hh.rem, hh.ev)
             ELSE HeaderStage(data, fromBuffer, p2, buf, hh.rem, hh.ev)
        ELSE IF ptr + 1 = n THEN Ret(1, Sub(data, ptr), rem, ev)
             ELSE IF data[ptr + 2] # LF THEN Throw(1, buf, rem, ev, "expected LF")
             ELSE IF rem = 0
                 THEN FeedLoop(data, fromBuffer, ptr + 2, 0, buf, rem,
                               Append(ev, <<"done">>))
             ELSE FeedLoop(data, fromBuffer, ptr + 2, 2, buf, rem, ev)

\* state_ == 2: the body, remainingBody_ bytes of it.
BodyStage(data, fromBuffer, ptr, buf, rem, ev) ==
    LET chunkSize == Min(Len(data) - ptr, rem)
        ev1 == Append(ev, <<"data", SubSeq(data, ptr + 1, ptr + chunkSize)>>)
        rem1 == rem - chunkSize
    IN  IF rem1 = 0
        THEN FeedLoop(data, fromBuffer, ptr + chunkSize, 0, buf, rem1,
                      Append(ev1, <<"done">>))
        ELSE FeedLoop(data, fromBuffer, ptr + chunkSize, 2, buf, rem1, ev1)

\* The while (true) loop of feed.
FeedLoop(data, fromBuffer, ptr, st, buf, rem, ev) ==
    IF ptr = Len(data) THEN Ret(st, IF fromBuffer THEN <<>> ELSE buf, rem, ev)
    ELSE IF st = 0 THEN StatusLine(data, fromBuffer, ptr, buf, rem, ev)
    ELSE IF st = 1 THEN HeaderStage(data, fromBuffer, ptr, buf, rem, ev)
    ELSE BodyStage(data, fromBuffer, ptr, buf, rem, ev)

\* HttpResponseParser::feed(bufferData, bufferSize)
Feed(p, bufferData) ==
    IF Len(p.buffer_) > 0
    THEN LET data == p.buffer_ \o bufferData
         IN  FeedLoop(data, TRUE, 0, p.state_, data, p.remainingBody_, <<>>)
    ELSE FeedLoop(bufferData, FALSE, 0, p.state_, p.buffer_, p.remainingBody_, <<>>)

\* HttpResponseParser::clear()
ParserClear == [state_ |-> 0, buffer_ |-> <<>>, remainingBody_ |-> 0]

ParserOf(r) ==
    [state_ |-> r.state_, buffer_ |-> r.buffer_, remainingBody_ |-> r.remainingBody_]

(***************************************************************************)
(* The byte streams a peer sends.                                          *)
(***************************************************************************)
StatusOK == <<"H", "T", "T", "P", "/", "1", ".", "1", " ", "2", "0", "0", " ",
              "O", "K", CR, LF>>
Status404 == <<"H", "T", "T", "P", "/", "1", ".", "0", " ", "4", "0", "4", " ",
               "N", "F", CR, LF>>
StatusBad == <<"H", "T", "T", "X", "/", "1", ".", "1", " ", "2", "0", "0", " ",
               "O", "K", CR, LF>>
CRLF == <<CR, LF>>
HdrLen(d) == <<"C", "o", "n", "t", "e", "n", "t", "-", "L", "e", "n", "g", "t",
               "h", ":", " ", d, CR, LF>>
HdrLenLower(d) == <<"c", "o", "n", "t", "e", "n", "t", "-", "l", "e", "n", "g",
                    "t", "h", ":", d, CR, LF>>
HdrHost == <<"X", ":", "y", CR, LF>>
HdrNoColon == <<"X", "y", CR, LF>>

\* Streams of well-formed responses, and streams the parser must reject.
GoodStreams ==
    { StatusOK \o CRLF,
      StatusOK \o HdrLen("5") \o CRLF \o <<"h", "e", "l", "l", "o">>,
      StatusOK \o HdrHost \o HdrLenLower("2") \o CRLF \o <<"h", "i">>
          \o Status404 \o CRLF,
      StatusOK \o CRLF \o Status404 \o HdrLen("1") \o CRLF \o <<"x">> }
BadStreams ==
    { StatusBad \o CRLF,
      StatusOK \o HdrNoColon \o CRLF }
Streams == GoodStreams \cup BadStreams

\* A response in chunked transfer encoding: chunks "hello" and " world",
\* then the chunk of size zero.
HdrChunked == <<"T", "r", "a", "n", "s", "f", "e", "r", "-", "E", "n", "c", "o",
                "d", "i", "n", "g", ":", " ", "c", "h", "u", "n", "k", "e", "d",
                CR, LF>>
ChunkHello == <<"5", CR, LF, "h", "e", "l", "l", "o", CR, LF>>
ChunkWorld == <<"6", CR, LF, " ", "w", "o", "r", "l", "d", CR, LF>>
ChunkLast == <<"0", CR, LF, CR, LF>>
ChunkedStreams ==
    { StatusOK \o HdrChunked \o CRLF \o ChunkHello \o ChunkWorld \o ChunkLast,
      StatusOK \o HdrChunked \o CRLF \o ChunkHello \o ChunkLast }

ParserStart ==
    /\ pending = stream
    /\ parser = ParserClear
    /\ events = <<>>

\* HttpConnection::onReceivedData: the next k bytes arrive and are fed.
OnReceivedData(k) ==
    /\ k \in 1..Len(pending)
    /\ LET r == Feed(parser, SubSeq(pending, 1, k))
       IN  /\ parser' = ParserOf(r)
           /\ events' = events \o r.ev
    /\ pending' = Sub(pending, k)
    /\ UNCHANGED stream
    /\ UNCHANGED socketVars
    /\ UNCHANGED poolVars
    /\ UNCHANGED laterVars

NextParser == \E k \in 1..Len(pending) : OnReceivedData(k)

(***************************************************************************)
(*                          CLIENT TCP SOCKET                              *)
(***************************************************************************)

MaxMsgs == 2        \* messages the producers submit
QueueCap == 2       \* bufferSize: capacity of threadBuffer_
MaxConnects == 2    \* calls of connect()
MaxRoom == 2        \* bytes the kernel's send buffer takes at once

\* Size in bytes of message m.
MsgSize(m) == IF m % 2 = 1 THEN 2 ELSE 1

\* Members after the constructor: DISCONNECTED, no socket, the wakeup fd
\* registered one-shot.  conn, room and peer are the kernel's and the peer's
\* side of the socket fd.  trans, notified and wakes record what the current
\* step did (changes of state_, connection-result notifications, futex_wake);
\* accepted, reports and lost record the messages write accepted, the write
\* results and the messages handed back as lost, since construction; closeReq
\* is the state the last requestClose of this connection found.  onException_
\* is whether the owner gave an exception callback; caught and delivered
\* record that the current step caught an exception of a handler, and the
\* calls of onException_ it made.
SockInit ==
    [ state_ |-> "DISCONNECTED", socket_ |-> FALSE, writeReady_ |-> FALSE,
      threadBuffer_ |-> <<>>, currentLine_ |-> 0, currentSent_ |-> 0,
      remainingMsgs_ |-> 0,
      wakeSignaled |-> FALSE, wakeReg |-> "armed", sockReg |-> "none",
      conn |-> "none", room |-> 0, peer |-> "up",
      threw |-> FALSE, hung |-> FALSE, connects |-> 0,
      onException_ |-> FALSE, caught |-> FALSE, delivered |-> 0,
      trans |-> <<>>, notified |-> <<>>, wakes |-> 0, closeReq |-> "none",
      accepted |-> <<>>, reports |-> <<>>, lost |-> <<>> ]

\* An assignment to state_; trans holds the changes of state_ the current
\* step has made, in order.
SetState(s, new) ==
    [s EXCEPT !.state_ = new,
              !.trans = IF s.state_ = new THEN @ ELSE Append(@, <<s.state_, new>>)]

\* ML::futex_wake(state_)
FutexWake(s) == [s EXCEPT !.wakes = 1]

\* throw ML::Exception(...)
Raise(s) == [s EXCEPT !.threw = TRUE]

\* ClientTcpSocket::canSendMessages
CanSendMessages(s) == s.state_ \in {"CONNECTED", "CONNECTING"}

\* ClientTcpSocket::onConnectionResult(result, msgs)
OnConnectionResult(s, result, msgs) ==
    [s EXCEPT !.notified = Append(@, <<result, msgs>>), !.lost = @ \o msgs]

\* ClientTcpSocket::handleWriteResult / onWriteResult(error, written, size);
\* error is "none" for 0, else the errno.
HandleWriteResult(s, error, written, size) ==
    [s EXCEPT !.reports = Append(@, <<error, written, size>>)]

\* ClientTcpSocket::removeFd(socket_): epoll_ctl DEL fails on a fd that is
\* closed or not registered.
RemoveSocketFd(s) ==
    IF ~s.socket_ \/ s.sockReg = "none" THEN Raise(s)
    ELSE [s EXCEPT !.sockReg = "none"]

\* ClientTcpSocket::restartFdOneShot(socket_, cb, writerFd)
RestartSocketFd(s, writerFd) ==
    IF ~s.socket_ \/ s.sockReg = "none" THEN Raise(s)
    ELSE [s EXCEPT !.sockReg = IF writerFd THEN "inout" ELSE "in"]

\* ClientTcpSocket::restartFdOneShot(wakeup_.fd(), cb)
RestartWakeupFd(s) ==
    IF s.wakeReg = "gone" THEN Raise(s) ELSE [s EXCEPT !.wakeReg = "armed"]

\* wakeup_.signal(): no effect once the fd is closed.
Signal(s) == IF s.wakeReg = "gone" THEN s ELSE [s EXCEPT !.wakeSignaled = TRUE]

\* ClientTcpSocket::handleDisconnection
HandleDisconnection(s) ==
    IF s.state_ # "DISCONNECTED"
    THEN LET s1 == RemoveSocketFd(s)
         IN  IF s1.threw THEN s1
             ELSE FutexWake(SetState(
                     [s1 EXCEPT !.socket_ = FALSE, !.conn = "none"],
                     "DISCONNECTED"))
    ELSE s

\* What ::write(socket_, ...) returns: "ok" (some bytes), "again"
\* (EWOULDBLOCK), "epipe", or "other" (another errno).  err is the errno the
\* kernel holds for a socket whose peer is gone.
WriteOutcome(s, err) ==
    IF ~s.socket_ THEN "other"
    ELSE IF s.conn = "pending" THEN "again"
    ELSE IF s.conn # "ok" THEN "other"
    ELSE IF s.peer \in {"hup", "rst"} THEN err
    ELSE IF s.room = 0 THEN "again"
    ELSE "ok"

\* The loop while (writeReady_ && !done) of flush.
RECURSIVE FlushLoop(_, _)
FlushLoop(s, err) ==
    LET out == WriteOutcome(s, err)
        remaining == MsgSize(s.currentLine_) - s.currentSent_
        len == Min(s.room, remaining)
        sent == [s EXCEPT !.currentSent_ = @ + len, !.room = @ - len]
        rep == HandleWriteResult(sent, "none", s.currentLine_, MsgSize(s.currentLine_))
        failed == [HandleWriteResult([s EXCEPT !.writeReady_ = FALSE],
                                     out, s.currentLine_, s.currentSent_)
                     EXCEPT !.currentLine_ = 0, !.currentSent_ = 0]
    IN  IF ~s.writeReady_ THEN s
        ELSE IF out = "ok"
        THEN IF remaining - len = 0
             THEN IF rep.threadBuffer_ # <<>>
                  THEN FlushLoop([rep EXCEPT !.currentLine_ = Head(rep.threadBuffer_),
                                             !.threadBuffer_ = Tail(@),
                                             !.remainingMsgs_ = @ - 1,
                                             !.currentSent_ = 0], err)
                  ELSE [rep EXCEPT !.currentLine_ = 0]
             ELSE FlushLoop(sent, err)
        ELSE IF out = "again" THEN [s EXCEPT !.writeReady_ = FALSE]
        ELSE IF out = "epipe" THEN HandleDisconnection(failed)
        ELSE failed

\* flush taking the newest message of the queue instead of the oldest.
FlushNewestFirst(s, err) ==
    LET n == Len(s.threadBuffer_)
    IN  IF s.currentLine_ = 0
        THEN IF n > 0
             THEN FlushLoop([s EXCEPT !.currentLine_ = s.threadBuffer_[n],
                                      !.threadBuffer_ = SubSeq(@, 1, n - 1),
                                      !.remainingMsgs_ = @ - 1,
                                      !.currentSent_ = 0], err)
             ELSE s
        ELSE FlushLoop(s, err)

\* ClientTcpSocket::flush
Flush(s, err) ==
    IF s.currentLine_ = 0
    THEN IF s.threadBuffer_ # <<>>
         THEN FlushLoop([s EXCEPT !.currentLine_ = Head(s.threadBuffer_),
                                  !.threadBuffer_ = Tail(@),
                                  !.remainingMsgs_ = @ - 1,
                                  !.currentSent_ = 0], err)
         ELSE s
    ELSE FlushLoop(s, err)

\* ClientTcpSocket::doClose
DoClose(s) ==
    LET s1 == FutexWake(SetState(s, "DISCONNECTING"))
        s2 == IF s1.socket_
              THEN [s1 EXCEPT !.sockReg = "none", !.socket_ = FALSE, !.conn = "none"]
              ELSE s1
    IN  IF s2.wakeReg = "gone" THEN Raise(s2)
        ELSE [s2 EXCEPT !.wakeReg = "gone", !.wakeSignaled = FALSE]

\* ClientTcpSocket::handleWakeupEvent (the eventfd reports EPOLLIN only)
HandleWakeupEvent(s, err) ==
    LET s1 == IF s.writeReady_
              THEN Flush([s EXCEPT !.wakeSignaled = FALSE], err)
              ELSE s
    IN  IF s1.threw THEN s1
        ELSE IF s1.state_ = "CONNECTED" THEN RestartWakeupFd(s1)
        ELSE IF s1.state_ = "DISCONNECTING"
        THEN IF s1.remainingMsgs_ > 0 \/ s1.currentLine_ # 0
             THEN LET s2 == RestartWakeupFd(s1)
                  IN  IF s2.threw THEN s2 ELSE Signal(s2)
             ELSE DoClose(s1)
        ELSE s1

\* ClientTcpSocket::handleConnectionResult: SO_ERROR of the socket.
HandleConnectionResult(s) ==
    LET lostMessages == s.threadBuffer_
        s1 == RemoveSocketFd(s)
        down == SetState([s1 EXCEPT !.socket_ = FALSE, !.conn = "none",
                                    !.threadBuffer_ = <<>>,
                                    !.remainingMsgs_ = 0], "DISCONNECTED")
    IN  IF s.conn \in {"ok", "pending"}
        THEN OnConnectionResult(FutexWake(SetState(s, "CONNECTED")), "SUCCESS", <<>>)
        ELSE IF s.conn = "unreach"
        THEN IF s1.threw THEN s1
             ELSE OnConnectionResult(FutexWake(down), "HOST_UNKNOWN", lostMessages)
        ELSE Raise(s)

\* ClientTcpSocket::handleWriteReady
HandleWriteReady(s, err) ==
    LET s1 == IF s.state_ = "CONNECTING" THEN HandleConnectionResult(s) ELSE s
    IN  IF s1.threw THEN s1
        ELSE IF s1.state_ # "DISCONNECTED"
        THEN Flush([s1 EXCEPT !.writeReady_ = TRUE], err)
        ELSE s1

\* ClientTcpSocket::handleReadReady: rd is what ::read returns first: "data"
\* (bytes, then EWOULDBLOCK), "eof" (0: the loop calls onReceivedData and
\* reads again, for ever), "err" (another errno: raises), "none".
HandleReadReady(s, rd) ==
    IF ~s.socket_ THEN s
    ELSE IF rd = "data" THEN [s EXCEPT !.peer = "up"]
    ELSE IF rd = "eof" THEN [s EXCEPT !.hung = TRUE]
    ELSE IF rd = "err" THEN Raise(s)
    ELSE s

\* ClientTcpSocket::handleSocketEvent
HandleSocketEvent(s, flags, rd, err) ==
    LET s1 == IF "OUT" \in flags THEN HandleWriteReady(s, err) ELSE s
        s2 == IF ~s1.threw /\ "IN" \in flags THEN HandleReadReady(s1, rd) ELSE s1
    IN  IF s2.threw \/ s2.hung THEN s2
        ELSE IF "HUP" \in flags THEN HandleDisconnection(s2)
        ELSE IF s2.state_ # "DISCONNECTED"
        THEN RestartSocketFd(s2, ~s2.writeReady_)
        ELSE s2

\* ClientTcpSocket::connect; outcome is what resolution and ::connect give.
Connect(s, outcome) ==
    LET s1 == FutexWake(SetState(s, "CONNECTING"))
        s2 == [s1 EXCEPT !.socket_ = TRUE, !.closeReq = "none",
                         !.sockReg = "none",
                         !.connects = @ + 1, !.peer = "up", !.room = MaxRoom]
        cleanup(t) == FutexWake(SetState(
                         [t EXCEPT !.socket_ = FALSE, !.conn = "none"],
                         "DISCONNECTED"))
    IN  CASE outcome = "hostUnknown" ->
                cleanup(OnConnectionResult(s2, "HOST_UNKNOWN", <<>>))
          [] outcome = "couldNotConnect" ->
                cleanup(OnConnectionResult(s2, "COULD_NOT_CONNECT", <<>>))
          [] outcome = "inProgress" ->
                [s2 EXCEPT !.conn = "pending", !.sockReg = "inout"]
          [] OTHER ->
                [FutexWake(SetState(OnConnectionResult(s2, "SUCCESS", <<>>),
                                    "CONNECTED"))
                    EXCEPT !.conn = "ok", !.sockReg = "inout"]

\* ClientTcpSocket::requestClose
RequestClose(s) ==
    IF CanSendMessages(s)
    THEN FutexWake(Signal(SetState([s EXCEPT !.closeReq = s.state_],
                                   "DISCONNECTING")))
    ELSE s

(***************************************************************************)
(* The threads around the socket.                                          *)
(***************************************************************************)

\* futex_wake wakes a thread blocked in futex_wait.
Woken(s, w) ==
    IF s.wakes = 1 /\ w.pc = "blocked" THEN [w EXCEPT !.pc = "check"] ELSE w

\* The state a step of the socket leaves: the wake flag is consumed.
Settle(s) == [s EXCEPT !.wakes = 0]

\* The socket as a step finds it: no change of state_ recorded yet.
Begin(s) ==
    [s EXCEPT !.trans = <<>>, !.notified = <<>>, !.caught = FALSE, !.delivered = 0]

SocketStart ==
    /\ sock = SockInit
    /\ batch = <<>>
    /\ producer = [pc |-> "idle", msg |-> 0]
    /\ nextMsg = 1
    /\ waiter = [pc |-> "idle", old |-> "DISCONNECTED"]

Running == ~sock.hung

\* A caller's connect().
UserConnect(outcome) ==
    /\ Running
    /\ sock.connects < MaxConnects
    /\ ~CanSendMessages(sock)
    /\ LET s == Connect(Begin(sock), outcome)
       IN  sock' = Settle(s) /\ waiter' = Woken(s, waiter)
    /\ UNCHANGED <<batch, producer, nextMsg>>
    /\ UNCHANGED parserVars
    /\ UNCHANGED poolVars
    /\ UNCHANGED laterVars

\* A caller's requestClose().
UserRequestClose ==
    /\ Running
    /\ CanSendMessages(sock)
    /\ LET s == RequestClose(Begin(sock))
       IN  sock' = Settle(s) /\ waiter' = Woken(s, waiter)
    /\ UNCHANGED <<batch, producer, nextMsg>>
    /\ UNCHANGED parserVars
    /\ UNCHANGED poolVars
    /\ UNCHANGED laterVars

\* ClientTcpSocket::write, as a producer thread runs it: the test of
\* canSendMessages, then tryPush and signal, then remainingMsgs_++.
WriteCheck ==
    /\ producer.pc = "idle"
    /\ nextMsg <= MaxMsgs
    /\ CanSendMessages(sock)
    /\ producer' = [pc |-> "push", msg |-> nextMsg]
    /\ nextMsg' = nextMsg + 1
    /\ sock' = Begin(sock)
    /\ UNCHANGED <<batch, waiter>>
    /\ UNCHANGED parserVars
    /\ UNCHANGED poolVars
    /\ UNCHANGED laterVars

WritePush ==
    /\ producer.pc = "push"
    /\ LET push == TryPush(sock.threadBuffer_, QueueCap, producer.msg)
       IN  IF push.ok
           THEN /\ sock' = Signal([Begin(sock) EXCEPT
                                     !.threadBuffer_ = push.q,
                                     !.accepted = Append(@, producer.msg)])
                /\ producer' = [producer EXCEPT !.pc = "count"]
           ELSE /\ producer' = [pc |-> "idle", msg |-> 0]
                /\ sock' = Begin(sock)
    /\ UNCHANGED <<batch, nextMsg, waiter>>
    /\ UNCHANGED parserVars
    /\ UNCHANGED poolVars
    /\ UNCHANGED laterVars

WriteCount ==
    /\ producer.pc = "count"
    /\ sock' = [Begin(sock) EXCEPT !.remainingMsgs_ = @ + 1]
    /\ producer' = [pc |-> "idle", msg |-> 0]
    /\ UNCHANGED <<batch, nextMsg, waiter>>
    /\ UNCHANGED parserVars
    /\ UNCHANGED poolVars
    /\ UNCHANGED laterVars

\* The events epoll would report for the socket fd, armed one-shot.
SocketFlags(s) ==
    IF ~s.socket_ \/ s.sockReg \notin {"in", "inout"} THEN {}
    ELSE LET failed == s.conn \in {"unreach", "refused"}
             gone == s.peer \in {"hup", "rst"}
         IN  (IF failed \/ gone THEN {"HUP"} ELSE {})
             \cup (IF failed \/ s.peer \in {"data", "fin", "rst"} THEN {"IN"} ELSE {})
             \cup (IF s.sockReg = "inout"
                      /\ (failed \/ (s.conn = "ok" /\ (s.room > 0 \/ gone)))
                   THEN {"OUT"} ELSE {})

WakeupReady(s) == s.wakeReg = "armed" /\ s.wakeSignaled

ReadyEvents(s) ==
    (IF WakeupReady(s) THEN {[fd |-> "wakeup", flags |-> {"IN"}]} ELSE {})
    \cup (IF SocketFlags(s) # {}
          THEN {[fd |-> "socket", flags |-> SocketFlags(s)]} ELSE {})

\* processOne: epoll_wait returns the ready fds, one-shot disarms them.
EpollWait ==
    /\ Running
    /\ batch = <<>>
    /\ ReadyEvents(sock) # {}
    /\ \E order \in [1..Cardinality(ReadyEvents(sock)) -> ReadyEvents(sock)] :
          /\ \A i, j \in DOMAIN order : i # j => order[i] # order[j]
          /\ batch' = order
    /\ sock' = [Begin(sock) EXCEPT
                  !.wakeReg = IF WakeupReady(sock) THEN "idle" ELSE @,
                  !.sockReg = IF SocketFlags(sock) # {} THEN "idle" ELSE @]
    /\ UNCHANGED <<producer, nextMsg, waiter>>
    /\ UNCHANGED parserVars
    /\ UNCHANGED poolVars
    /\ UNCHANGED laterVars

\* What ::read gives for the state of the peer.
ReadOutcomes(s) ==
    CASE s.peer = "data" -> {"data"}
      [] s.peer = "fin" -> {"eof"}
      [] s.peer = "rst" -> {"err"}
      [] OTHER -> {"none"}

\* What a build makes of a function that only calls itself: the stack
\* overflows and the call never returns, or the call is compiled away.
RecursionOutcomes == {"overflow", "elided"}

\* ClientTcpSocket::onException: with onException_ set it calls itself, and
\* so on without end; onException_ is not called on any path.
OnException(s, ub) ==
    IF s.onException_ /\ ub = "overflow" THEN [s EXCEPT !.hung = TRUE] ELSE s

\* ClientTcpSocket::handleException, from the catch (...) of processOne.
HandleException(s, ub) ==
    OnException([s EXCEPT !.threw = FALSE, !.caught = TRUE], ub)

\* processOne: the callback of the next event of the batch; an exception
\* ends the loop over the batch (catch (...) handleException()).
Dispatch(rd, err) ==
    /\ Running
    /\ batch # <<>>
    /\ rd \in ReadOutcomes(sock)
    /\ LET e == Head(batch)
           s == IF e.fd = "wakeup" THEN HandleWakeupEvent(Begin(sock), err)
                ELSE HandleSocketEvent(Begin(sock), e.flags, rd, err)
       IN  /\ \E ub \in (IF s.threw /\ s.onException_
                         THEN RecursionOutcomes ELSE {"elided"}) :
                 sock' = Settle(IF s.threw THEN HandleException(s, ub) ELSE s)
           /\ batch' = IF s.threw THEN <<>> ELSE Tail(batch)
           /\ waiter' = Woken(s, waiter)
    /\ UNCHANGED <<producer, nextMsg>>
    /\ UNCHANGED parserVars
    /\ UNCHANGED poolVars
    /\ UNCHANGED laterVars

\* The kernel completes a pending connect.
KernelConnect(result) ==
    /\ sock.conn = "pending"
    /\ sock' = [Begin(sock) EXCEPT !.conn = result]
    /\ UNCHANGED <<batch, producer, nextMsg, waiter>>
    /\ UNCHANGED parserVars
    /\ UNCHANGED poolVars
    /\ UNCHANGED laterVars

\* The kernel's send buffer drains.
KernelDrain ==
    /\ sock.conn = "ok"
    /\ sock.room < MaxRoom
    /\ sock' = [Begin(sock) EXCEPT !.room = MaxRoom]
    /\ UNCHANGED <<batch, producer, nextMsg, waiter>>
    /\ UNCHANGED parserVars
    /\ UNCHANGED poolVars
    /\ UNCHANGED laterVars

\* The peer sends bytes, closes its side (fin), resets (rst) or hangs up.
Peer(what) ==
    /\ sock.conn = "ok"
    /\ sock.peer = "up"
    /\ sock' = [Begin(sock) EXCEPT !.peer = what]
    /\ UNCHANGED <<batch, producer, nextMsg, waiter>>
    /\ UNCHANGED parserVars
    /\ UNCHANGED poolVars
    /\ UNCHANGED laterVars

\* ClientTcpSocket::waitState(DISCONNECTED), as the waiting thread runs it.
WaitCall ==
    /\ waiter.pc = "idle"
    /\ sock.state_ = "DISCONNECTING"
    /\ waiter' = [waiter EXCEPT !.pc = "check"]
    /\ sock' = Begin(sock)
    /\ UNCHANGED <<batch, producer, nextMsg>>
    /\ UNCHANGED parserVars
    /\ UNCHANGED poolVars
    /\ UNCHANGED laterVars

WaitCheck ==
    /\ waiter.pc = "check"
    /\ waiter' = IF sock.state_ = "DISCONNECTED"
                 THEN [waiter EXCEPT !.pc = "returned"]
                 ELSE [pc |-> "futex", old |-> sock.state_]
    /\ sock' = Begin(sock)
    /\ UNCHANGED <<batch, producer, nextMsg>>
    /\ UNCHANGED parserVars
    /\ UNCHANGED poolVars
    /\ UNCHANGED laterVars

WaitFutex ==
    /\ waiter.pc = "futex"
    /\ waiter' = IF sock.state_ # waiter.old
                 THEN [waiter EXCEPT !.pc = "check"]
                 ELSE [waiter EXCEPT !.pc = "blocked"]
    /\ sock' = Begin(sock)
    /\ UNCHANGED <<batch, producer, nextMsg>>
    /\ UNCHANGED parserVars
    /\ UNCHANGED poolVars
    /\ UNCHANGED laterVars

ConnectOutcomes == {"hostUnknown", "couldNotConnect", "inProgress", "immediate"}
WriteErrors == {"epipe", "other"}

Reactor ==
    \/ EpollWait
    \/ \E rd \in {"data", "eof", "err", "none"}, err \in WriteErrors : Dispatch(rd, err)

Kernel ==
    \/ \E r \in {"ok", "unreach", "refused"} : KernelConnect(r)
    \/ KernelDrain

Producers == WriteCheck \/ WritePush \/ WriteCount

Waiters == WaitCall \/ WaitCheck \/ WaitFutex

NextSocket ==
    \/ \E o \in ConnectOutcomes : UserConnect(o)
    \/ UserRequestClose
    \/ Producers
    \/ Reactor
    \/ Kernel
    \/ \E w \in {"data", "fin", "rst", "hup"} : Peer(w)

(***************************************************************************)
(*                    HTTP CONNECTION AND HTTP CLIENT                      *)
(***************************************************************************)

NumParallel == 2     \* numParallel: connections of the pool
QueueSize == 1       \* queueSize: capacity of queue_
MaxRequests == 5     \* requests the callers submit
MaxSyncConnects == 2 \* connect() calls one handler may make

Conns == 1..NumParallel

\* Request r carries content (a body of one chunk) when r is even.
HasContent(r) == r % 2 = 0

\* A moved-from or cleared HttpRequest: no verb, no url, no callbacks.
NoRequest == 0

\* HttpConnection(): IDLE, no request, the socket DISCONNECTED.  msgs is the
\* socket's outbound queue, conn the kernel's side of the socket fd, peerHas
\* the request whose headers the peer has received and not answered.
ConnInit ==
    [ responseState_ |-> "IDLE", request_ |-> NoRequest,
      state_ |-> "DISCONNECTED", msgs |-> <<>>, conn |-> "none",
      peerHas |-> NoRequest ]

\* HttpClient(baseUrl, numParallel, queueSize): every connection available.
\* outs holds what the connect() calls of the running handler will meet, cut
\* tells that the handler wanted more of them than outs held; crashed: the
\* process has aborted; performed, doneCount and overlap record the calls of
\* perform and of the requests' onDone, dropped the requests popped from the
\* overflow list without a call of perform, expired the requests whose
\* deadline passed while they were in flight; shut: shutdown has returned,
\* atShutdown the requests the overflow list held when it was called.
PoolInit ==
    [ queue_ |-> <<>>, inThreadQueue_ |-> <<>>,
      avlConnections_ |-> [i \in 1..NumParallel |-> i], nextAvail_ |-> 0,
      conn |-> [c \in Conns |-> ConnInit],
      outs |-> <<>>, ub |-> "noop", crashed |-> FALSE, cut |-> FALSE,
      performed |-> <<>>, doneCount |-> [r \in 1..MaxRequests |-> 0],
      outstanding |-> [c \in Conns |-> FALSE], overlap |-> FALSE,
      dropped |-> {}, expired |-> {}, shut |-> FALSE, atShutdown |-> {} ]

\* abort(), or a null dereference.
Crash(P) == [P EXCEPT !.crashed = TRUE]

\* The handler calls connect() more often than MaxSyncConnects: such a
\* handler is not followed further.
Cut(P) == [P EXCEPT !.crashed = TRUE, !.cut = TRUE]

\* ClientTcpSocket::canSendMessages of connection c
ConnCanSend(P, c) == P.conn[c].state_ \in {"CONNECTED", "CONNECTING"}

\* ClientTcpSocket::write of connection c: an exception outside CONNECTING
\* and CONNECTED, which HttpConnection::onException turns into abort().
ConnWrite(P, c, msg) ==
    IF ConnCanSend(P, c)
    THEN [P EXCEPT !.conn[c].msgs = Append(@, msg)]
    ELSE Crash(P)

\* ClientTcpSocket::requestClose of connection c
ConnRequestClose(P, c) ==
    IF ConnCanSend(P, c)
    THEN [P EXCEPT !.conn[c].state_ = "DISCONNECTING"]
    ELSE P

\* getConnection without nextAvail_++.
GetConnectionNoAdvance(P) ==
    IF P.nextAvail_ < NumParallel
    THEN [pool |-> P, conn |-> P.avlConnections_[P.nextAvail_ + 1]]
    ELSE [pool |-> P, conn |-> 0]

\* HttpClient::getConnection
GetConnection(P) ==
    IF P.nextAvail_ < NumParallel
    THEN [pool |-> [P EXCEPT !.nextAvail_ = @ + 1],
          conn |-> P.avlConnections_[P.nextAvail_ + 1]]
    ELSE [pool |-> P, conn |-> 0]

\* releaseConnection without nextAvail_--.
ReleaseConnectionNoPop(P, c) ==
    IF P.nextAvail_ > 0
    THEN [P EXCEPT !.avlConnections_[P.nextAvail_] = c]
    ELSE P

\* HttpClient::releaseConnection
ReleaseConnection(P, c) ==
    IF P.nextAvail_ > 0
    THEN [P EXCEPT !.nextAvail_ = @ - 1, !.avlConnections_[P.nextAvail_] = c]
    ELSE P

RECURSIVE Perform(_, _, _)
RECURSIVE HandleEndOfRq(_, _, _)

\* handleHttpConnectionDone releasing the connection without a look at the
\* overflow list.
HandleHttpConnectionDoneReleaseOnly(P, c) ==
    IF P.crashed THEN P ELSE ReleaseConnection(P, c)

\* HttpClient::handleHttpConnectionDone: perform the front of the overflow
\* list, then pop it.  pop_front on an empty deque is undefined: P.ub is what
\* the build does then (abort, or nothing).
HandleHttpConnectionDone(P, c) ==
    IF P.crashed THEN P
    ELSE IF Len(P.inThreadQueue_) > 0
    THEN LET front == Head(P.inThreadQueue_)
             moved == [P EXCEPT !.inThreadQueue_ = <<NoRequest>> \o Tail(@)]
             P1 == Perform(moved, c, front)
         IN  IF P1.crashed THEN P1
             ELSE IF P1.inThreadQueue_ = <<>>
             THEN IF P1.ub = "crash" THEN Crash(P1) ELSE P1
             ELSE [P1 EXCEPT
                     !.inThreadQueue_ = Tail(@),
                     !.dropped = IF Head(P1.inThreadQueue_) = NoRequest THEN @
                                 ELSE @ \cup {Head(P1.inThreadQueue_)}]
    ELSE ReleaseConnection(P, c)

\* HttpConnection::clear
ConnClear(P, c) ==
    [P EXCEPT !.conn[c].responseState_ = "IDLE", !.conn[c].request_ = NoRequest]

\* HttpConnection::handleEndOfRq: request_.callbacks().onDone, clear, onDone.
\* A request without callbacks (moved-from, cleared) makes the call a null
\* dereference.
HandleEndOfRq(P, c, code) ==
    LET P1 == IF code # 0 THEN ConnRequestClose(P, c) ELSE P
        rq == P1.conn[c].request_
        P2 == [P1 EXCEPT !.doneCount[rq] = Min(@ + 1, 2),
                         !.outstanding[c] = FALSE]
    IN  IF P.crashed THEN P
        ELSE IF rq = NoRequest THEN Crash(P1)
        ELSE HandleHttpConnectionDone(ConnClear(P2, c), c)

\* HttpConnection::onConnectionResult
ConnOnConnectionResult(P, c, result) ==
    IF P.crashed THEN P
    ELSE IF result = 0 THEN ConnWrite(P, c, <<"headers", P.conn[c].request_>>)
    ELSE HandleEndOfRq(P, c, result)

\* ClientTcpSocket::connect of connection c; the outcome is the next of
\* P.outs.
ConnConnect(P, c) ==
    LET outcome == Head(P.outs)
        P1 == [P EXCEPT !.outs = Tail(@), !.conn[c].state_ = "CONNECTING"]
        cleanup(Q) == IF Q.crashed THEN Q
                      ELSE [Q EXCEPT !.conn[c].state_ = "DISCONNECTED",
                                     !.conn[c].conn = "none"]
    IN  IF P.crashed THEN P
        ELSE IF P.outs = <<>> THEN Cut(P)
        ELSE IF outcome = "hostUnknown"
            THEN cleanup(ConnOnConnectionResult(P1, c, 1))
        ELSE IF outcome = "couldNotConnect"
            THEN cleanup(ConnOnConnectionResult(P1, c, 2))
        ELSE IF outcome = "inProgress"
            THEN [P1 EXCEPT !.conn[c].conn = "pending"]
        ELSE LET P2 == ConnOnConnectionResult(P1, c, 0)
             IN  IF P2.crashed THEN P2
                 ELSE [P2 EXCEPT !.conn[c].state_ = "CONNECTED",
                                 !.conn[c].conn = "ok"]

\* HttpConnection::perform
Perform(P, c, rq) ==
    LET P1 == [P EXCEPT !.conn[c].request_ = rq,
                        !.conn[c].responseState_ = "HEADERS",
                        !.performed = Append(@, rq),
                        !.overlap = @ \/ P.outstanding[c],
                        !.outstanding[c] = TRUE]
    IN  IF P.crashed THEN P
        ELSE IF P.conn[c].responseState_ # "IDLE"
            THEN Crash([P EXCEPT !.overlap = @ \/ P.outstanding[c]])
        ELSE IF ConnCanSend(P1, c) THEN ConnWrite(P1, c, <<"headers", rq>>)
        ELSE ConnConnect(P1, c)

\* HttpClient::handleQueueEvent
HandleQueueEvent(P, rq) ==
    IF P.nextAvail_ < NumParallel
    THEN LET g == GetConnection(P) IN Perform(g.pool, g.conn, rq)
    ELSE [P EXCEPT !.inThreadQueue_ = Append(@, rq)]

\* HttpConnection::onWriteResult with error == 0; content is sent as one
\* chunk (its size is at most sendSize).  The exception "invalid state"
\* reaches HttpConnection::onException, which aborts.
ConnOnWriteResult(P, c, msg) ==
    LET st == P.conn[c].responseState_
        rq == P.conn[c].request_
    IN  IF st = "HEADERS"
        THEN IF rq # NoRequest /\ HasContent(rq)
             THEN ConnWrite([P EXCEPT !.conn[c].responseState_ = "BODY"], c,
                            <<"body", rq>>)
             ELSE [P EXCEPT !.conn[c].responseState_ = "IDLE"]
        ELSE IF st = "BODY" THEN [P EXCEPT !.conn[c].responseState_ = "IDLE"]
        ELSE Crash(P)

(***************************************************************************)
(* The pool's steps.                                                       *)
(***************************************************************************)
PoolStart == pool = PoolInit /\ lastEnqueue = "none" /\ nextReq = 1

Alive == ~pool.crashed

\* The connect outcomes the connect() calls of one handler may meet: a
\* handler calls connect() again only after a call that failed at once.
SyncFailures == {"hostUnknown", "couldNotConnect"}
OutcomeSeqs ==
    {q \in UNION {[1..n -> {"hostUnknown", "couldNotConnect", "inProgress",
                            "immediate"}] : n \in 1..MaxSyncConnects} :
        /\ \A i \in 1..(Len(q) - 1) : q[i] \in SyncFailures
        /\ Len(q) < MaxSyncConnects => q[Len(q)] \notin SyncFailures}

\* A completion handler calls perform, and so connect() and pop_front, only
\* when the overflow list holds a request.
DoneOutcomes == IF pool.inThreadQueue_ = <<>> THEN {<<>>} ELSE OutcomeSeqs
PopOutcomes == IF pool.inThreadQueue_ = <<>> THEN {"noop"} ELSE {"crash", "noop"}

\* What a handler leaves: the outcomes it did not use are forgotten.
Done(P) == [P EXCEPT !.outs = <<>>, !.ub = "noop"]

\* enqueueRequest over a queue_ that takes every request.
EnqueueRequestNoLimit ==
    /\ Alive
    /\ nextReq <= MaxRequests
    /\ pool' = [pool EXCEPT !.queue_ = Append(@, nextReq)]
    /\ nextReq' = nextReq + 1
    /\ lastEnqueue' = "accepted"
    /\ UNCHANGED parserVars
    /\ UNCHANGED socketVars
    /\ UNCHANGED laterVars

\* HttpClient::enqueueRequest: queue_.tryPush
EnqueueRequest ==
    /\ Alive
    /\ nextReq <= MaxRequests
    /\ LET res == TryPush(pool.queue_, QueueSize, nextReq)
       IN  IF res.ok
           THEN /\ pool' = [pool EXCEPT !.queue_ = res.q]
                /\ nextReq' = nextReq + 1
                /\ lastEnqueue' = "accepted"
           ELSE /\ lastEnqueue' = "full"
                /\ UNCHANGED <<pool, nextReq>>
    /\ UNCHANGED parserVars
    /\ UNCHANGED socketVars
    /\ UNCHANGED laterVars

\* The message loop delivers the front of queue_ to handleQueueEvent.
QueueEvent(outs, ub) ==
    /\ Alive
    /\ pool.queue_ # <<>>
    /\ LET R == HandleQueueEvent(
                   [pool EXCEPT !.queue_ = Tail(@), !.outs = outs, !.ub = ub],
                   Head(pool.queue_))
       IN  ~R.cut /\ pool' = Done(R)
    /\ lastEnqueue' = "none"
    /\ UNCHANGED nextReq
    /\ UNCHANGED parserVars
    /\ UNCHANGED socketVars
    /\ UNCHANGED laterVars

\* handleWriteReady of a connecting socket: SO_ERROR is 0, ENETUNREACH or
\* another error (an exception, so abort()).
ConnectCompletes(c, result, outs, ub) ==
    /\ Alive
    /\ pool.conn[c].conn = "pending"
    /\ pool.conn[c].state_ = "CONNECTING"
    /\ LET P == [pool EXCEPT !.outs = outs, !.ub = ub]
           R == CASE result = "ok" ->
                     ConnOnConnectionResult(
                        [P EXCEPT !.conn[c].state_ = "CONNECTED",
                                  !.conn[c].conn = "ok"], c, 0)
                  [] result = "unreach" ->
                     ConnOnConnectionResult(
                        [P EXCEPT !.conn[c].state_ = "DISCONNECTED",
                                  !.conn[c].conn = "none",
                                  !.conn[c].msgs = <<>>], c, 1)
                  [] OTHER -> Crash(P)
       IN  ~R.cut /\ pool' = Done(R)
    /\ lastEnqueue' = "none"
    /\ UNCHANGED nextReq
    /\ UNCHANGED parserVars
    /\ UNCHANGED socketVars
    /\ UNCHANGED laterVars

\* flush writes the front message of connection c: onWriteResult(0, ...), or
\* with an errno, which HttpConnection::onWriteResult answers by an
\* exception (abort()).
WriteResult(c, ok) ==
    /\ Alive
    /\ pool.conn[c].msgs # <<>>
    /\ pool.conn[c].conn = "ok"
    /\ pool.conn[c].state_ \in {"CONNECTED", "DISCONNECTING"}
    /\ LET msg == Head(pool.conn[c].msgs)
           P == [pool EXCEPT !.conn[c].msgs = Tail(@),
                             !.conn[c].peerHas =
                                 IF msg[1] = "headers" THEN msg[2] ELSE @]
       IN  pool' = IF ok THEN ConnOnWriteResult(P, c, msg) ELSE Crash(P)
    /\ lastEnqueue' = "none"
    /\ UNCHANGED nextReq
    /\ UNCHANGED parserVars
    /\ UNCHANGED socketVars
    /\ UNCHANGED laterVars

\* The peer's response to the request it has received is parsed to its end:
\* onParserDone, handleEndOfRq(0).
ResponseDone(c, outs, ub) ==
    /\ Alive
    /\ pool.conn[c].conn = "ok"
    /\ pool.conn[c].state_ \in {"CONNECTED", "DISCONNECTING"}
    /\ pool.conn[c].peerHas # NoRequest
    /\ LET R == HandleEndOfRq(
                   [pool EXCEPT !.conn[c].peerHas = NoRequest,
                                !.outs = outs, !.ub = ub], c, 0)
       IN  ~R.cut /\ pool' = Done(R)
    /\ lastEnqueue' = "none"
    /\ UNCHANGED nextReq
    /\ UNCHANGED parserVars
    /\ UNCHANGED socketVars
    /\ UNCHANGED laterVars

\* The peer hangs up: handleDisconnection, onDisconnected.
Hangup(c) ==
    /\ Alive
    /\ pool.conn[c].conn = "ok"
    /\ pool.conn[c].state_ # "DISCONNECTED"
    /\ pool' = [pool EXCEPT !.conn[c].state_ = "DISCONNECTED",
                            !.conn[c].conn = "none",
                            !.conn[c].peerHas = NoRequest]
    /\ lastEnqueue' = "none"
    /\ UNCHANGED nextReq
    /\ UNCHANGED parserVars
    /\ UNCHANGED socketVars
    /\ UNCHANGED laterVars

\* The deadline of the request connection c carries passes.  The timeout
\* given to enqueueRequest is stored in the HttpRequest; perform arms no
\* timer and no handler reads it, so no member changes.
DeadlineExpires(c) ==
    /\ Alive
    /\ pool.outstanding[c]
    /\ pool.conn[c].request_ # NoRequest
    /\ pool.conn[c].request_ \notin pool.expired
    /\ pool' = [pool EXCEPT !.expired = @ \cup {pool.conn[c].request_}]
    /\ lastEnqueue' = "none"
    /\ UNCHANGED nextReq
    /\ UNCHANGED parserVars
    /\ UNCHANGED socketVars
    /\ UNCHANGED laterVars

\* HttpClient::shutdown: the queue and the connections are removed from the
\* message loop, which is then stopped; no handler runs afterwards.  queue_
\* and inThreadQueue_ are not touched.
Shutdown ==
    /\ Alive
    /\ ~pool.shut
    /\ pool' = [pool EXCEPT !.shut = TRUE,
                            !.atShutdown = {pool.inThreadQueue_[i] :
                                              i \in 1..Len(pool.inThreadQueue_)}]
    /\ lastEnqueue' = "none"
    /\ UNCHANGED nextReq
    /\ UNCHANGED parserVars
    /\ UNCHANGED socketVars
    /\ UNCHANGED laterVars

NextPool ==
    \/ EnqueueRequest
    \/ \E outs \in OutcomeSeqs, ub \in PopOutcomes : QueueEvent(outs, ub)
    \/ \E c \in Conns, r \in {"ok", "unreach", "refused"},
          outs \in DoneOutcomes, ub \in PopOutcomes :
            ConnectCompletes(c, r, outs, ub)
    \/ \E c \in Conns, ok \in BOOLEAN : WriteResult(c, ok)
    \/ \E c \in Conns, outs \in DoneOutcomes, ub \in PopOutcomes :
            ResponseDone(c, outs, ub)
    \/ \E c \in Conns : Hangup(c)

(***************************************************************************)
(*                             ENDPOINT BASE                               *)
(***************************************************************************)

NumThreads == 2      \* num_threads of spinup
MaxTimers == 1       \* calls of addPeriodic
MaxTransports == 1   \* transports given to notifyNewTransport
MaxDuplicates == 1   \* transports given to it with an fd that is open already

Threads == 1..NumThreads
Transports == 1..MaxTransports
WakeupFd == 0
Fds == 0..(MaxTimers + MaxTransports)

\* The EpollData the constructor makes for the wakeup fd.  id stands for the
\* address of an EpollData: two of them with equal fields are two objects.
WakeupData == [id |-> 0, fdType |-> "WAKEUP", fd |-> WakeupFd, transport |-> 0]

\* An fd that is not in the epoll set.
NoEntry == [mode |-> "none", data |-> WakeupData]

\* EndpointBase(name): the wakeup fd is registered, level-triggered.  epoll
\* and open are the kernel's side (the epoll set, the open fds); wakeup: the
\* wakeup fd is signalled; thread[w] is worker w ([pc, ev]: where it is, the
\* EpollData of the event it handles); sd, dataSetCopy and closed are the
\* thread inside shutdown, its copy of epollDataSet and the timer fds it has
\* closed; threw: the call of the current step threw to its caller; dup: it
\* was a startPolling of an fd that had a registration; failed: an exception
\* left a worker thread or shutdown.
EndpointInit ==
    [ epollDataSet |-> {WakeupData},
      transportMapping |-> {},
      numTransports |-> 0, threadsActive_ |-> 0,
      shutdown_ |-> FALSE, disallowTimers_ |-> FALSE,
      zombie |-> {},
      epoll |-> [f \in Fds |-> IF f = WakeupFd
                                THEN [mode |-> "level", data |-> WakeupData]
                                ELSE NoEntry],
      open |-> {WakeupFd}, wakeup |-> FALSE,
      thread |-> [w \in Threads |-> [pc |-> "none", ev |-> WakeupData]],
      sd |-> "idle", dataSetCopy |-> {}, closed |-> {}, killed |-> {},
      nextId |-> 1, nextTransport |-> 1, duplicates |-> 0,
      threw |-> FALSE, dup |-> FALSE, failed |-> FALSE ]

\* throw ML::Exception(...)
EThrow(E) == [E EXCEPT !.threw = TRUE]

\* Epoller::addFdOneShot(fd, data): fails if the fd is present (or closed).
AddFdOneShot(E, d) ==
    IF d.fd \notin E.open \/ E.epoll[d.fd].mode # "none" THEN EThrow(E)
    ELSE [E EXCEPT !.epoll[d.fd] = [mode |-> "armed", data |-> d]]

\* Epoller::removeFd(fd): fails if the fd is not present.
RemoveFd(E, fd) ==
    IF E.epoll[fd].mode = "none" THEN EThrow(E)
    ELSE [E EXCEPT !.epoll[fd] = NoEntry]

\* Epoller::restartFdOneShot(fd, data): fails if the fd is not present.
RestartFdOneShot(E, d) ==
    IF E.epoll[d.fd].mode = "none" THEN EThrow(E)
    ELSE [E EXCEPT !.epoll[d.fd] = [mode |-> "armed", data |-> d]]

\* ::close(fd): the kernel drops a closed fd from the epoll set.
CloseFd(E, fd) == [E EXCEPT !.open = @ \ {fd}, !.epoll[fd] = NoEntry]

\* The fd the kernel gives to the next timerfd_create or transport.
FreshFd(E) == CHOOSE f \in Fds \ E.open : \A g \in Fds \ E.open : f <= g

\* EndpointBase::startPolling
StartPolling(E, d) ==
    LET E1 == [E EXCEPT !.dup = E.epoll[d.fd].mode # "none"]
    IN  IF d \in E.epollDataSet THEN EThrow(E1)
        ELSE AddFdOneShot([E1 EXCEPT !.epollDataSet = @ \cup {d}], d)

\* EndpointBase::stopPolling
StopPolling(E, d) ==
    LET E1 == RemoveFd(E, d.fd)
    IN  IF E1.threw THEN E1 ELSE [E1 EXCEPT !.epollDataSet = @ \ {d}]

\* EndpointBase::restartPolling
RestartPolling(E, d) == RestartFdOneShot(E, d)

\* EndpointBase::addPeriodic
AddPeriodic(E) ==
    LET fd == FreshFd(E)
        d == [id |-> E.nextId, fdType |-> "TIMER", fd |-> fd, transport |-> 0]
    IN  StartPolling([E EXCEPT !.open = @ \cup {fd}, !.nextId = @ + 1], d)

Mapped(E, t) == \E d \in E.transportMapping : d.transport = t

\* EndpointBase::notifyNewTransport; fd is the transport's epollFd_, handle
\* what its getHandle() returns.
NotifyNewTransport(E, t, fd, handle) ==
    LET d == [id |-> E.nextId, fdType |-> "TRANSPORT", fd |-> fd, transport |-> t]
        E1 == [E EXCEPT !.transportMapping = @ \cup {d}, !.nextId = @ + 1]
        E2 == StartPolling(E1, d)
    IN  IF Mapped(E, t) THEN EThrow(E)
        ELSE IF handle < 0 THEN EThrow(E1)
        ELSE IF E2.threw THEN E2
        ELSE [E2 EXCEPT !.numTransports = @ + 1]

\* EndpointBase::notifyCloseTransport
NotifyCloseTransport(E, t) ==
    IF ~Mapped(E, t) THEN EThrow(E)
    ELSE LET d == CHOOSE x \in E.transportMapping : x.transport = t
             E1 == StopPolling(E, d)
         IN  IF E1.threw THEN E1
             ELSE [E1 EXCEPT !.transportMapping = @ \ {d},
                             !.zombie = @ \cup {t},
                             !.numTransports = @ - 1]

\* handleEpollEvent, case TRANSPORT: handleTransportEvent, then
\* restartPolling unless the transport is a zombie.  closes: the handler
\* closes the transport (closeWhenHandlerFinished), whose epoll fd is closed
\* when the handler's reference to it goes.
TransportHandled(E, w, closes) ==
    LET d == E.thread[w].ev
        t == d.transport
        E1 == IF closes THEN NotifyCloseTransport(E, t) ELSE E
        E2 == IF E1.threw THEN E1
              ELSE IF t \notin E1.zombie THEN RestartPolling(E1, d)
              ELSE CloseFd([E1 EXCEPT !.killed = @ \ {t}], d.fd)
    IN  [E2 EXCEPT !.thread[w].pc = "loop"]

\* handleEpollEvent re-arming the timer before it reads disallowTimers_.
TimerHandledRearmEarly(E, w) ==
    [RestartPolling(E, E.thread[w].ev) EXCEPT !.thread[w].pc = "rearm"]

\* handleEpollEvent, case TIMER: handleTimerEvent, then the test of
\* disallowTimers_.
TimerHandled(E, w) ==
    [E EXCEPT !.thread[w].pc = IF E.disallowTimers_ THEN "loop" ELSE "rearm"]

\* handleEpollEvent, case TIMER: restartPolling.
TimerRearmed(E, w) ==
    [RestartPolling(E, E.thread[w].ev) EXCEPT !.thread[w].pc = "loop"]

(***************************************************************************)
(* The endpoint's threads.                                                 *)
(***************************************************************************)
EndpointStart == ep = EndpointInit

\* What a step leaves: an exception in a worker thread or in shutdown ends
\* the process.
EBegin(E) == [E EXCEPT !.threw = FALSE, !.dup = FALSE]
Fatal(E) == [E EXCEPT !.failed = E.threw]

Up == ~ep.failed

\* A caller's addPeriodic, before shutdown.
AddPeriodicCall ==
    /\ Up /\ ep.sd = "idle"
    /\ Cardinality({d \in ep.epollDataSet : d.fdType = "TIMER"}) < MaxTimers
    /\ Fds \ ep.open # {}
    /\ ep' = AddPeriodic(EBegin(ep))
    /\ UNCHANGED <<parserVars, socketVars, poolVars, routerVars>>

\* The acceptor's notifyNewTransport for a new transport, before shutdown.
NewTransport ==
    /\ Up /\ ep.sd = "idle"
    /\ ep.nextTransport <= MaxTransports
    /\ Fds \ ep.open # {}
    /\ LET fd == FreshFd(ep)
       IN  ep' = NotifyNewTransport(
                    [EBegin(ep) EXCEPT !.open = @ \cup {fd},
                                       !.nextTransport = @ + 1],
                    ep.nextTransport, fd, fd)
    /\ UNCHANGED <<parserVars, socketVars, poolVars, routerVars>>

\* spinup(num_threads, synchronous): the threads are created; each starts
\* when the scheduler lets it.
Spinup ==
    /\ Up /\ ep.sd = "idle"
    /\ \A w \in Threads : ep.thread[w].pc = "none"
    /\ ep' = [EBegin(ep) EXCEPT
                !.shutdown_ = FALSE, !.threadsActive_ = 0,
                !.thread = [w \in Threads |-> [@[w] EXCEPT !.pc = "created"]]]
    /\ UNCHANGED <<parserVars, socketVars, poolVars, routerVars>>

\* runEventThread: atomic_inc(threadsActive_).
ThreadStart(w) ==
    /\ Up
    /\ ep.thread[w].pc = "created"
    /\ ep' = [EBegin(ep) EXCEPT !.thread[w].pc = "loop", !.threadsActive_ = @ + 1]
    /\ UNCHANGED <<parserVars, socketVars, poolVars, routerVars>>

\* runEventThread: while (!shutdown_) handleEvents(...); then
\* atomic_dec(threadsActive_).
ThreadLoop(w) ==
    /\ Up
    /\ ep.thread[w].pc = "loop"
    /\ ep' = IF ep.shutdown_
             THEN [EBegin(ep) EXCEPT !.thread[w].pc = "done",
                                     !.threadsActive_ = @ - 1]
             ELSE [EBegin(ep) EXCEPT !.thread[w].pc = "wait"]
    /\ UNCHANGED <<parserVars, socketVars, poolVars, routerVars>>

\* Epoller::handleEvents: epoll_wait returns the event of a one-shot fd,
\* which disarms it, and the callback handleEpollEvent is entered.
Deliver(w, fd) ==
    /\ Up
    /\ ep.thread[w].pc = "wait"
    /\ ep.epoll[fd].mode = "armed"
    /\ ep' = [EBegin(ep) EXCEPT !.epoll[fd].mode = "idle",
                                !.thread[w] = [pc |-> "handling",
                                               ev |-> ep.epoll[fd].data]]
    /\ UNCHANGED <<parserVars, socketVars, poolVars, routerVars>>

\* Epoller::handleEvents returns: the wakeup fd is signalled (handleEpollEvent
\* returns true), or the wait timed out.
WaitReturns(w) ==
    /\ Up
    /\ ep.thread[w].pc = "wait"
    /\ ep' = [EBegin(ep) EXCEPT !.thread[w].pc = "loop"]
    /\ UNCHANGED <<parserVars, socketVars, poolVars, routerVars>>

\* A worker inside handleEpollEvent for a transport.  A transport that
\* shutdown told to close does so.
HandleTransport(w, closes) ==
    /\ Up
    /\ ep.thread[w].pc = "handling"
    /\ ep.thread[w].ev.fdType = "TRANSPORT"
    /\ ep.thread[w].ev.transport \in ep.killed => closes
    /\ ep' = Fatal(TransportHandled(EBegin(ep), w, closes))
    /\ UNCHANGED <<parserVars, socketVars, poolVars, routerVars>>

\* A worker inside handleEpollEvent for a timer.
HandleTimer(w) ==
    /\ Up
    /\ ep.thread[w].pc = "handling"
    /\ ep.thread[w].ev.fdType = "TIMER"
    /\ ep' = Fatal(TimerHandled(EBegin(ep), w))
    /\ UNCHANGED <<parserVars, socketVars, poolVars, routerVars>>

RearmTimer(w) ==
    /\ Up
    /\ ep.thread[w].pc = "rearm"
    /\ ep' = Fatal(TimerRearmed(EBegin(ep), w))
    /\ UNCHANGED <<parserVars, socketVars, poolVars, routerVars>>

\* shutdown: the copy of epollDataSet, the close sent to every transport,
\* disallowTimers_ = true.
ShutdownBegin ==
    /\ Up /\ ep.sd = "idle"
    /\ ep' = [EBegin(ep) EXCEPT
                !.dataSetCopy = ep.epollDataSet,
                !.killed = {d.transport : d \in ep.transportMapping},
                !.disallowTimers_ = TRUE,
                !.sd = "stopTimers"]
    /\ UNCHANGED <<parserVars, socketVars, poolVars, routerVars>>

RECURSIVE StopTimers(_, _)
StopTimers(E, ds) ==
    IF ds = {} \/ E.threw THEN E
    ELSE LET d == CHOOSE x \in ds : \A y \in ds : x.id <= y.id
         IN  StopTimers(StopPolling(E, d), ds \ {d})

\* shutdown: stopPolling of every timer of the copy.
ShutdownStopTimers ==
    /\ Up /\ ep.sd = "stopTimers"
    /\ ep' = Fatal([StopTimers(EBegin(ep),
                               {d \in ep.dataSetCopy : d.fdType = "TIMER"})
                      EXCEPT !.sd = "waitTransports"])
    /\ UNCHANGED <<parserVars, socketVars, poolVars, routerVars>>

\* shutdown: sleepUntilIdle and the wait for numTransports == 0, then
\* shutdown_ = true and wakeup.signal().
ShutdownSignal ==
    /\ Up /\ ep.sd = "waitTransports"
    /\ ep.numTransports = 0
    /\ ep' = [EBegin(ep) EXCEPT !.shutdown_ = TRUE, !.wakeup = TRUE,
                                !.sd = "waitThreads"]
    /\ UNCHANGED <<parserVars, socketVars, poolVars, routerVars>>

RECURSIVE CloseAll(_, _)
CloseAll(E, fds) ==
    IF fds = {} THEN E
    ELSE LET fd == CHOOSE x \in fds : TRUE
         IN  CloseAll(CloseFd(E, fd), fds \ {fd})

\* shutdown closing the timer fds without the wait for the threads.
ShutdownCloseTimersNoWait ==
    /\ Up /\ ep.sd = "waitThreads"
    /\ LET fds == {d.fd : d \in {x \in ep.dataSetCopy : x.fdType = "TIMER"}}
       IN  ep' = [CloseAll(EBegin(ep), fds) EXCEPT !.closed = fds, !.sd = "join"]
    /\ UNCHANGED <<parserVars, socketVars, poolVars, routerVars>>

\* shutdown: the wait for threadsActive_ == 0, then ::close of every timer
\* fd of the copy.
ShutdownCloseTimers ==
    /\ Up /\ ep.sd = "waitThreads"
    /\ ep.threadsActive_ = 0
    /\ LET fds == {d.fd : d \in {x \in ep.dataSetCopy : x.fdType = "TIMER"}}
       IN  ep' = [CloseAll(EBegin(ep), fds) EXCEPT !.closed = fds, !.sd = "join"]
    /\ UNCHANGED <<parserVars, socketVars, poolVars, routerVars>>

\* shutdown: eventThreads->join_all(), wakeup.read(); shutdown returns.
ShutdownJoin ==
    /\ Up /\ ep.sd = "join"
    /\ \A w \in Threads : ep.thread[w].pc \in {"none", "done"}
    /\ ep' = [EBegin(ep) EXCEPT !.wakeup = FALSE, !.sd = "returned"]
    /\ UNCHANGED <<parserVars, socketVars, poolVars, routerVars>>

\* notifyNewTransport for a new transport whose epollFd_ is fd, an fd that is
\* open already.
NewTransportOnOpenFd(fd) ==
    /\ Up /\ ep.sd = "idle"
    /\ ep.duplicates < MaxDuplicates
    /\ fd \in ep.open \ {WakeupFd}
    /\ ep' = NotifyNewTransport(
                 [EBegin(ep) EXCEPT !.nextTransport = @ + 1,
                                    !.duplicates = @ + 1],
                 ep.nextTransport, fd, fd)
    /\ UNCHANGED <<parserVars, socketVars, poolVars, routerVars>>

\* notifyNewTransport for a new transport whose getHandle() is negative (its
\* socket is closed already); it counts among the transports that cannot be
\* registered.
NewTransportBadHandle ==
    /\ Up /\ ep.sd = "idle"
    /\ ep.duplicates < MaxDuplicates
    /\ Fds \ ep.open # {}
    /\ LET fd == FreshFd(ep)
       IN  ep' = NotifyNewTransport(
                    [EBegin(ep) EXCEPT !.open = @ \cup {fd},
                                       !.nextTransport = @ + 1,
                                       !.duplicates = @ + 1],
                    ep.nextTransport, fd, -1)
    /\ UNCHANGED <<parserVars, socketVars, poolVars, routerVars>>

\* notifyNewTransport for a transport the endpoint holds already.
NewTransportAgain(t) ==
    /\ Up /\ ep.sd = "idle"
    /\ Mapped(ep, t)
    /\ LET d == CHOOSE x \in ep.transportMapping : x.transport = t
       IN  ep' = NotifyNewTransport(EBegin(ep), t, d.fd, d.fd)
    /\ UNCHANGED <<parserVars, socketVars, poolVars, routerVars>>

\* A caller's notifyCloseTransport; the transport then closes its epoll fd.
CloseTransportCall(t) ==
    /\ Up /\ ep.sd = "idle"
    /\ t < ep.nextTransport
    /\ LET E == NotifyCloseTransport(EBegin(ep), t)
           d == CHOOSE x \in ep.transportMapping : x.transport = t
       IN  ep' = IF E.threw \/ ~Mapped(ep, t) THEN E ELSE CloseFd(E, d.fd)
    /\ UNCHANGED <<parserVars, socketVars, poolVars, routerVars>>

\* A caller's stopPolling of a registration.
StopPollingCall(d) ==
    /\ Up /\ ep.sd = "idle"
    /\ d \in ep.epollDataSet
    /\ d.fdType # "WAKEUP"
    /\ ep' = StopPolling(EBegin(ep), d)
    /\ UNCHANGED <<parserVars, socketVars, poolVars, routerVars>>

\* The calls that register and unregister fds, in any order.
NextEndpointCalls ==
    \/ AddPeriodicCall
    \/ NewTransport
    \/ \E fd \in Fds : NewTransportOnOpenFd(fd)
    \/ \E t \in 1..(MaxTransports + MaxDuplicates) : CloseTransportCall(t)
    \/ \E d \in ep.epollDataSet : StopPollingCall(d)

EndpointShutdown ==
    \/ ShutdownBegin
    \/ ShutdownStopTimers
    \/ ShutdownSignal
    \/ ShutdownCloseTimers
    \/ ShutdownJoin

EventThread(w) ==
    \/ ThreadStart(w)
    \/ ThreadLoop(w)
    \/ \E fd \in Fds : Deliver(w, fd)
    \/ WaitReturns(w)
    \/ \E closes \in BOOLEAN : HandleTransport(w, closes)
    \/ HandleTimer(w)
    \/ RearmTimer(w)

NextEndpoint ==
    \/ AddPeriodicCall
    \/ NewTransport
    \/ Spinup
    \/ \E w \in Threads : EventThread(w)
    \/ EndpointShutdown

(***************************************************************************)
(*                        JSON PRINTING CONTEXTS                           *)
(***************************************************************************)
MaxJsonCalls == 3   \* printing calls made on the two contexts

\* A text is a sequence of characters.
MemberNames == { <<"a">>, <<"\"", "b">> }
StringValues == { <<>>, <<"x", "\\">> }
SignedValues == { -3, 40 }
UnsignedValues == { 0, 52 }

\* The entry path.push_back(isObject) makes: no member printed yet.
PathEntry(isObject) == [isObject |-> isObject, memberNum |-> -1]

\* ML::jsonEscape: a quote and a backslash get a backslash in front.
RECURSIVE JsonEscape(_)
JsonEscape(s) ==
    IF s = <<>> THEN <<>>
    ELSE LET c == Head(s)
         IN  (IF c \in {"\"", "\\"} THEN <<"\\", c>> ELSE <<c>>)
                 \o JsonEscape(Tail(s))

\* The decimal digits of a number that is not negative.
RECURSIVE DecimalText(_)
DecimalText(n) ==
    IF n < 10 THEN <<Digits[n + 1]>>
    ELSE DecimalText(n \div 10) \o <<Digits[(n % 10) + 1]>>

\* stream << i, for every integer type.
StreamInsert(i) == IF i < 0 THEN <<"-">> \o DecimalText(-i) ELSE DecimalText(i)

\* sprintf(buffer, format, i): a conversion of the format prints the number,
\* every other character of the format is copied.  "%i", "%li" and "%lli"
\* are one signed conversion each; "%ui", "%lui" and "%llui" are the unsigned
\* conversion "%u", "%lu" or "%llu" and then the letter i.
Sprintf(format, i) ==
    CASE format \in {"%i", "%li", "%lli"} ->
             IF i < 0 THEN <<"-">> \o DecimalText(-i) ELSE DecimalText(i)
      [] format \in {"%ui", "%lui", "%llui"} ->
             DecimalText(i) \o <<"i">>

\* A printing context as constructed: an empty path, nothing printed.
PrintingContextInit == [path |-> <<>>, text |-> <<>>, threw |-> FALSE]

PathBack(c) == c.path[Len(c.path)]
PopBack(c) == SubSeq(c.path, 1, Len(c.path) - 1)
IncrementMemberNum(c) ==
    [c.path EXCEPT ![Len(c.path)].memberNum = @ + 1]
\* ExcAssert(cond) failing: the call throws before it changes anything.
AssertionFailure(c) == [c EXCEPT !.threw = TRUE]

\* One call on a StreamJsonPrintingContext; text is what stream has received.
StreamJsonPrintingContext(c0, call) ==
    LET c == [c0 EXCEPT !.threw = FALSE]
    IN  CASE call.op = "startObject" ->
                 [c EXCEPT !.path = Append(@, PathEntry(TRUE)),
                           !.text = @ \o <<"{">>]
          [] call.op = "startMember" ->
                 IF ~PathBack(c).isObject THEN AssertionFailure(c)
                 ELSE [c EXCEPT !.path = IncrementMemberNum(c),
                                !.text = @ \o (IF PathBack(c).memberNum + 1 # 0
                                               THEN <<",">> ELSE <<>>)
                                           \o <<"\"">> \o JsonEscape(call.s)
                                           \o <<"\"", ":">>]
          [] call.op = "endObject" ->
                 IF ~PathBack(c).isObject THEN AssertionFailure(c)
                 ELSE [c EXCEPT !.path = PopBack(c), !.text = @ \o <<"}">>]
          [] call.op = "startArray" ->
                 [c EXCEPT !.path = Append(@, PathEntry(FALSE)),
                           !.text = @ \o <<"[">>]
          [] call.op = "newArrayElement" ->
                 IF PathBack(c).isObject THEN AssertionFailure(c)
                 ELSE [c EXCEPT !.path = IncrementMemberNum(c),
                                !.text = @ \o (IF PathBack(c).memberNum + 1 # 0
                                               THEN <<",">> ELSE <<>>)]
          [] call.op = "endArray" ->
                 IF PathBack(c).isObject THEN AssertionFailure(c)
                 ELSE [c EXCEPT !.path = PopBack(c), !.text = @ \o <<"]">>]
          [] call.op = "writeNull" ->
                 [c EXCEPT !.text = @ \o <<"n", "u", "l", "l">>]
          [] call.op \in {"writeInt", "writeUnsignedInt", "writeLong",
                          "writeUnsignedLong", "writeLongLong",
                          "writeUnsignedLongLong"} ->
                 [c EXCEPT !.text = @ \o StreamInsert(call.i)]
          [] call.op = "writeString" ->
                 [c EXCEPT !.text = @ \o <<"\"">> \o JsonEscape(call.s)
                                      \o <<"\"">>]
          [] call.op = "writeBool" ->
                 [c EXCEPT !.text = @ \o (IF call.b
                                          THEN <<"t", "r", "u", "e">>
                                          ELSE <<"f", "a", "l", "s", "e">>)]

\* One call on a StringJsonPrintingContext; text is what str has had appended.
StringJsonPrintingContext(c0, call) ==
    LET c == [c0 EXCEPT !.threw = FALSE]
    IN  CASE call.op = "startObject" ->
                 [c EXCEPT !.path = Append(@, PathEntry(TRUE)),
                           !.text = @ \o <<"{">>]
          [] call.op = "startMember" ->
                 IF ~PathBack(c).isObject THEN AssertionFailure(c)
                 ELSE [c EXCEPT !.path = IncrementMemberNum(c),
                                !.text = @ \o (IF PathBack(c).memberNum + 1 # 0
                                               THEN <<",">> ELSE <<>>)
                                           \o <<"\"">> \o JsonEscape(call.s)
                                           \o <<"\"", ":">>]
          [] call.op = "endObject" ->
                 IF ~PathBack(c).isObject THEN AssertionFailure(c)
                 ELSE [c EXCEPT !.path = PopBack(c), !.text = @ \o <<"}">>]
          [] call.op = "startArray" ->
                 [c EXCEPT !.path = Append(@, PathEntry(FALSE)),
                           !.text = @ \o <<"[">>]
          [] call.op = "newArrayElement" ->
                 IF PathBack(c).isObject THEN AssertionFailure(c)
                 ELSE [c EXCEPT !.path = IncrementMemberNum(c),
                                !.text = @ \o (IF PathBack(c).memberNum + 1 # 0
                                               THEN <<",">> ELSE <<>>)]
          [] call.op = "endArray" ->
                 IF PathBack(c).isObject THEN AssertionFailure(c)
                 ELSE [c EXCEPT !.path = PopBack(c), !.text = @ \o <<"]">>]
          [] call.op = "writeNull" ->
                 [c EXCEPT !.text = @ \o <<"n", "u", "l", "l">>]
          [] call.op = "writeInt" ->
                 [c EXCEPT !.text = @ \o Sprintf("%i", call.i)]
          [] call.op = "writeUnsignedInt" ->
                 [c EXCEPT !.text = @ \o Sprintf("%ui", call.i)]
          [] call.op = "writeLong" ->
                 [c EXCEPT !.text = @ \o Sprintf("%li", call.i)]
          [] call.op = "writeUnsignedLong" ->
                 [c EXCEPT !.text = @ \o Sprintf("%lui", call.i)]
          [] call.op = "writeLongLong" ->
                 [c EXCEPT !.text = @ \o Sprintf("%lli", call.i)]
          [] call.op = "writeUnsignedLongLong" ->
                 [c EXCEPT !.text = @ \o Sprintf("%llui", call.i)]
          [] call.op = "writeString" ->
                 [c EXCEPT !.text = @ \o <<"\"">> \o JsonEscape(call.s)
                                      \o <<"\"">>]
          [] call.op = "writeBool" ->
                 [c EXCEPT !.text = @ \o (IF call.b
                                          THEN <<"t", "r", "u", "e">>
                                          ELSE <<"f", "a", "l", "s", "e">>)]

\* The two contexts as constructed, and the calls made on them so far.
JsonInit ==
    [ stream |-> PrintingContextInit, string |-> PrintingContextInit,
      calls |-> <<>> ]

PrintingCall(op, s, i, b) == [op |-> op, s |-> s, i |-> i, b |-> b]
OnOpenContainer == {"startMember", "endObject", "newArrayElement", "endArray"}
UnsignedWriters == {"writeUnsignedInt", "writeUnsignedLong", "writeUnsignedLongLong"}

\* A caller makes the same printing call on both contexts.  A call on the
\* innermost container is made with a container open: path.back() of an empty
\* path has no defined outcome.
Printing(call) ==
    /\ Len(json.calls) < MaxJsonCalls
    /\ call.op \in OnOpenContainer => json.stream.path # <<>> /\ json.string.path # <<>>
    /\ json' = [ stream |-> StreamJsonPrintingContext(json.stream, call),
                 string |-> StringJsonPrintingContext(json.string, call),
                 calls |-> Append(json.calls, call.op) ]
    /\ UNCHANGED <<parserVars, socketVars, poolVars, endpointVars, rt, ctx>>

NextJson ==
    \/ Printing(PrintingCall("startObject", <<>>, 0, FALSE))
    \/ \E s \in MemberNames : Printing(PrintingCall("startMember", s, 0, FALSE))
    \/ Printing(PrintingCall("endObject", <<>>, 0, FALSE))
    \/ Printing(PrintingCall("startArray", <<>>, 0, FALSE))
    \/ Printing(PrintingCall("newArrayElement", <<>>, 0, FALSE))
    \/ Printing(PrintingCall("endArray", <<>>, 0, FALSE))
    \/ Printing(PrintingCall("writeNull", <<>>, 0, FALSE))
    \/ \E b \in BOOLEAN : Printing(PrintingCall("writeBool", <<>>, 0, b))
    \/ \E s \in StringValues : Printing(PrintingCall("writeString", s, 0, FALSE))
    \/ \E i \in SignedValues : Printing(PrintingCall("writeInt", <<>>, i, FALSE))
    \/ \E i \in SignedValues : Printing(PrintingCall("writeLong", <<>>, i, FALSE))
    \/ \E i \in SignedValues : Printing(PrintingCall("writeLongLong", <<>>, i, FALSE))
    \/ \E i \in UnsignedValues : Printing(PrintingCall("writeUnsignedInt", <<>>, i, FALSE))
    \/ \E i \in UnsignedValues : Printing(PrintingCall("writeUnsignedLong", <<>>, i, FALSE))
    \/ \E i \in UnsignedValues : Printing(PrintingCall("writeUnsignedLongLong", <<>>, i, FALSE))

(***************************************************************************)
(*                         REST REQUEST ROUTER                             *)
(***************************************************************************)

MaxRoutes == 3     \* routes added to the route tree, in all

\* Strings are sequences of characters.  The resources of the requests.
RouterResources == {<<>>, <<"a">>, <<"b">>, <<"a", "a">>, <<"a", "b">>}

RouterVerbs == {"GET", "PUT"}

\* s starts with p: s.find(p) == 0.
StartsWith(s, p) == Len(p) <= Len(s) /\ SubSeq(s, 1, Len(p)) = p

\* std::string(s, n): s from offset n.
Drop(s, n) == SubSeq(s, n + 1, Len(s))

\* PathSpec: a string, a regular expression, or nothing.  The regular
\* expressions of the model are a literal followed by caps groups "(.)".
PathString(p) == [type |-> "STRING", path |-> p, caps |-> 0]
Rx(p, n) == [type |-> "REGEX", path |-> p, caps |-> n]
PathNone == [type |-> "NONE", path |-> <<>>, caps |-> 0]

\* The characters of the strings that filters are declared with.
Chars(v) ==
    CASE v = "GET" -> <<"G", "E", "T">>
      [] v = "PUT" -> <<"P", "U", "T">>
      [] v = "q=1" -> <<"q", "=", "1">>
      [] v = "header:h=1" -> <<"h", "e", "a", "d", "e", "r", ":", "h", "=", "1">>
      [] OTHER -> <<>>

\* std::string::find(c): the offset of the first c in s, Len(s) if none (npos).
Find(s, c) ==
    IF \E i \in 1..Len(s) : s[i] = c
    THEN (CHOOSE i \in 1..Len(s) : s[i] = c /\ \A j \in 1..(i - 1) : s[j] # c) - 1
    ELSE Len(s)

HeaderPrefix == <<"h", "e", "a", "d", "e", "r", ":">>

\* RequestFilter::parseVerbs: the strings with a '=' give the filters on
\* parameters; newVerbs, the strings without one, is assigned verbs at the
\* end, so that verbs stays as it was given.
ParseVerbs(verbs) ==
    LET withEq == {v \in verbs : Find(Chars(v), "=") < Len(Chars(v))}
        newVerbs == verbs \ withEq
        Filter(v) ==
            LET i == Find(Chars(v), "=")
                key == SubSeq(Chars(v), 1, i)
                value == Drop(Chars(v), i + 1)
            IN  IF StartsWith(key, HeaderPrefix)
                THEN [location |-> "HEADER", param |-> Drop(key, 7), value |-> value]
                ELSE [location |-> "QUERY", param |-> key, value |-> value]
    IN  [verbs |-> verbs, filters |-> {Filter(v) : v \in withEq}]

\* RequestFilter(verbs)
RequestFilter(verbs) == ParseVerbs(verbs)

\* Route::process: the request has the parameter or the header of filter f.
FilterMatches(f, request) ==
    IF f.location = "QUERY" THEN <<f.param, f.value>> \in request.params
    ELSE <<f.param, f.value>> \in request.header

\* RestRequest: verb, resource, params, header.
RouterRequests ==
    [verb : RouterVerbs \cup {"OPTIONS"}, resource : RouterResources,
     params : {{}}, header : {{}}]
    \cup [verb : {"GET"}, resource : {<<"a">>, <<"a", "b">>},
          params : {{<<<<"q">>, <<"1">>>>}}, header : {{}}]

\* RestRequestParsingContext(request), with the connection the request came
\* on: sent holds the response codes sent on it, allow the Allow header of an
\* OPTIONS response.  tried, invoked and calls record the routes the routers
\* tried, the root handlers called (with the context they saw), and every
\* call of Route::process with the context state before it, at the end of
\* its body (inside) and after it; aborted: an exception left ~StateGuard.
\* walk holds the path specs of the routes that are being processed, from
\* the top-level router down.
NewContext(request) ==
    [ remaining |-> request.resource, resources |-> <<>>, objects |-> <<>>,
      sent |-> <<>>, allow |-> {}, walk |-> <<>>,
      tried |-> <<>>, invoked |-> <<>>, calls |-> <<>>, aborted |-> FALSE ]

\* RestConnection::sendResponse, sendErrorResponse, sendHttpResponse
Send(x, code) == [x EXCEPT !.sent = Append(@, code)]

\* RestConnection::responseSent
ResponseSent(x) == x.sent # <<>>

\* RestRequestParsingContext::saveState
SaveState(x) ==
    [ remaining |-> x.remaining,
      resourcesLength |-> Len(x.resources),
      objectsLength |-> Len(x.objects) ]

\* restoreState that leaves resources as they are.
RestoreStateKeepResources(x, state) ==
    [x EXCEPT !.remaining = state.remaining,
              !.objects = SubSeq(@, 1, state.objectsLength)]

\* RestRequestParsingContext::restoreState; a failed ExcAssert throws.
RestoreState(x, state) ==
    LET x1 == [x EXCEPT !.remaining = state.remaining]
        x2 == [x1 EXCEPT !.resources = SubSeq(@, 1, state.resourcesLength)]
    IN  IF Len(x1.resources) < state.resourcesLength
        THEN [x1 EXCEPT !.aborted = TRUE]
        ELSE IF Len(x2.objects) < state.objectsLength
        THEN [x2 EXCEPT !.aborted = TRUE]
        ELSE [x2 EXCEPT !.objects = SubSeq(@, 1, state.objectsLength)]

\* PathSpec::numCapturedElements
NumCapturedElements(path) ==
    CASE path.type = "NONE" -> 0
      [] path.type = "STRING" -> 1
      [] path.type = "REGEX" -> path.caps + 1

\* matchPath that keeps the whole match of a regular expression only.
MatchPathWholeMatchOnly(path, x) ==
    CASE path.type = "STRING" ->
            IF StartsWith(x.remaining, path.path)
            THEN [matched |-> TRUE, threw |-> FALSE,
                  x |-> [x EXCEPT !.resources = Append(@, path.path),
                                  !.remaining = Drop(@, Len(path.path))]]
            ELSE [matched |-> FALSE, threw |-> FALSE, x |-> x]
      [] path.type = "REGEX" ->
            LET n == Len(path.path) + path.caps
            IN  IF StartsWith(x.remaining, path.path) /\ Len(x.remaining) >= n
                THEN [matched |-> TRUE, threw |-> FALSE,
                      x |-> [x EXCEPT !.resources = Append(@, SubSeq(x.remaining, 1, n)),
                                      !.remaining = Drop(@, n)]]
                ELSE [matched |-> FALSE, threw |-> FALSE, x |-> x]
      [] OTHER -> [matched |-> FALSE, threw |-> TRUE, x |-> x]

\* RestRequestRouter::Route::matchPath
MatchPath(path, x) ==
    CASE path.type = "STRING" ->
            IF StartsWith(x.remaining, path.path)
            THEN [matched |-> TRUE, threw |-> FALSE,
                  x |-> [x EXCEPT !.resources = Append(@, path.path),
                                  !.remaining = Drop(@, Len(path.path))]]
            ELSE [matched |-> FALSE, threw |-> FALSE, x |-> x]
      [] path.type = "REGEX" ->
            LET lit == Len(path.path)
                n == lit + path.caps
                found == StartsWith(x.remaining, path.path) /\ Len(x.remaining) >= n
                results == [i \in 1..(path.caps + 1) |->
                              IF i = 1 THEN SubSeq(x.remaining, 1, n)
                              ELSE SubSeq(x.remaining, lit + i - 1, lit + i - 1)]
            IN  IF found
                THEN [matched |-> TRUE, threw |-> FALSE,
                      x |-> [x EXCEPT !.resources = @ \o results,
                                      !.remaining = Drop(@, n)]]
                ELSE [matched |-> FALSE, threw |-> FALSE, x |-> x]
      [] OTHER -> [matched |-> FALSE, threw |-> TRUE, x |-> x]

\* What a route's extractObject does: nothing is set, it adds an object to
\* the context (addObject), it sends an error response, or it throws.
ExtractKinds == {"none", "push", "respond", "throw"}

ExtractObject(kind, x) ==
    CASE kind = "push" -> [threw |-> FALSE, x |-> [x EXCEPT !.objects = Append(@, "obj")]]
      [] kind = "respond" -> [threw |-> FALSE, x |-> Send(x, 404)]
      [] kind = "throw" -> [threw |-> TRUE, x |-> x]
      [] OTHER -> [threw |-> FALSE, x |-> x]

\* What a root handler (OnProcessRequest) does: it sends a response and
\* returns MR_YES, returns MR_NO, returns MR_ASYNC, sends an error and returns
\* MR_ERROR, or throws; or it sends a response and then returns MR_NO, or
\* sends a response and then throws.
HandlerKinds == {"yes", "no", "async", "error", "throw", "respondNo", "respondThrow"}

ThrowingKinds == {"throw", "respondThrow"}

RootHandler(kind, id, x) ==
    LET y == [x EXCEPT !.invoked = Append(@, [router |-> id,
                                             resources |-> x.resources,
                                             remaining |-> x.remaining,
                                             walk |-> x.walk])]
    IN  CASE kind = "yes" -> [mr |-> "MR_YES", x |-> Send(y, 200)]
          [] kind = "no" -> [mr |-> "MR_NO", x |-> y]
          [] kind = "async" -> [mr |-> "MR_ASYNC", x |-> y]
          [] kind = "error" -> [mr |-> "MR_ERROR", x |-> Send(y, 400)]
          [] kind = "respondNo" -> [mr |-> "MR_NO", x |-> Send(y, 200)]
          [] kind = "respondThrow" -> [mr |-> "THROW", x |-> Send(y, 200)]
          [] OTHER -> [mr |-> "THROW", x |-> y]

\* processRequest ending the search at the first MR_YES or MR_ASYNC only.
DecisiveNoError(mr) == mr \in {"MR_YES", "MR_ASYNC"}

\* processRequest: mr == MR_YES || mr == MR_ASYNC || mr == MR_ERROR
Decisive(mr) == mr \in {"MR_YES", "MR_ASYNC", "MR_ERROR"}

\* processRequest with a root handler that runs whatever is left of the path.
RootHandlerAppliesAnyRemaining(router, x) == router.rootHandler # "none"

\* processRequest: rootHandler && (!terminal || context.remaining.empty())
RootHandlerApplies(router, x) ==
    /\ router.rootHandler # "none"
    /\ (~router.terminal \/ x.remaining = <<>>)

RECURSIVE Options(_, _, _)
RECURSIVE OptionsFrom(_, _, _, _)
RECURSIVE RouteOptions(_, _, _, _)

\* Route::options adding the verbs of a route whatever its match leaves.
RouteOptionsAnyRemaining(env, id, i, x) ==
    LET route == env.routers[id].subRoutes[i]
        m == MatchPath(route.path, x)
    IN  IF m.threw THEN [verbs |-> {}, threw |-> TRUE]
        ELSE IF ~m.matched THEN [verbs |-> {}, threw |-> FALSE]
        ELSE LET sub == Options(env, route.router, m.x)
             IN  [verbs |-> route.verbs \cup sub.verbs, threw |-> sub.threw]

\* RestRequestRouter::Route::options: the verbs of the routes that consume
\* the whole of remaining; its StateGuard puts the context back.
RouteOptions(env, id, i, x) ==
    LET route == env.routers[id].subRoutes[i]
        m == MatchPath(route.path, x)
    IN  IF m.threw THEN [verbs |-> {}, threw |-> TRUE]
        ELSE IF ~m.matched THEN [verbs |-> {}, threw |-> FALSE]
        ELSE LET sub == Options(env, route.router, m.x)
             IN  [verbs |-> (IF m.x.remaining = <<>> THEN route.verbs ELSE {})
                               \cup sub.verbs,
                  threw |-> sub.threw]

OptionsFrom(env, id, i, x) ==
    IF i > Len(env.routers[id].subRoutes) THEN [verbs |-> {}, threw |-> FALSE]
    ELSE LET a == RouteOptions(env, id, i, x)
         IN  IF a.threw THEN a
             ELSE LET b == OptionsFrom(env, id, i + 1, x)
                  IN  [verbs |-> a.verbs \cup b.verbs, threw |-> b.threw]

\* RestRequestRouter::options
Options(env, id, x) == OptionsFrom(env, id, 1, x)

RECURSIVE ProcessRequest(_, _, _)
RECURSIVE SubRoutesFrom(_, _, _, _)
RECURSIVE RouteProcess(_, _, _, _)

\* RestRequestRouter::Route::process for route i of router id.  The
\* StateGuard restores the context on every way out of its scope.
RouteProcess(env, id, i, x) ==
    LET route == env.routers[id].subRoutes[i]
        state == SaveState(x)
        Logged(mr, inside, y) ==
            [mr |-> mr,
             x |-> [y EXCEPT !.calls = Append(@, [route |-> <<id, i>>,
                                                  before |-> state,
                                                  inside |-> inside,
                                                  after |-> SaveState(y),
                                                  mr |-> mr])]]
        Leave(mr, y) == Logged(mr, SaveState(y),
                               [RestoreState(y, state) EXCEPT !.walk = x.walk])
    IN  IF route.verbs # {} /\ env.request.verb \notin route.verbs
        THEN Logged("MR_NO", state, x)
        ELSE IF ~(\A f \in route.filters : FilterMatches(f, env.request))
        THEN Logged("MR_NO", state, x)
        ELSE LET m == MatchPath(route.path, x)
             IN  IF m.threw THEN Leave("THROW", m.x)
                 ELSE IF ~m.matched THEN Leave("MR_NO", m.x)
                 ELSE LET e == ExtractObject(route.extractObject,
                                             [m.x EXCEPT !.walk = Append(@, route.path)])
                      IN  IF e.threw THEN Leave("THROW", e.x)
                          ELSE IF ResponseSent(e.x) THEN Leave("MR_YES", e.x)
                          ELSE LET r == ProcessRequest(env, route.router, e.x)
                               IN  Leave(r.mr, r.x)

\* processRequest: the loop over subRoutes, from route i on.
SubRoutesFrom(env, id, i, x) ==
    IF i > Len(env.routers[id].subRoutes) THEN [mr |-> "MR_NO", x |-> x]
    ELSE LET r == RouteProcess(env, id, i,
                               [x EXCEPT !.tried = Append(@, <<id, i>>)])
         IN  IF r.x.aborted THEN r
             ELSE IF r.mr = "THROW" THEN [mr |-> "MR_YES", x |-> Send(r.x, 500)]
             ELSE IF Decisive(r.mr) THEN r
             ELSE SubRoutesFrom(env, id, i + 1, r.x)

\* RestRequestRouter::processRequest
ProcessRequest(env, id, x) ==
    LET router == env.routers[id]
    IN  IF env.request.verb = "OPTIONS"
        THEN LET o == Options(env, id, x)
             IN  IF o.threw THEN [mr |-> "THROW", x |-> x]
                 ELSE [mr |-> "MR_YES",
                       x |-> [Send(x, IF o.verbs = {} THEN 400 ELSE 200)
                                EXCEPT !.allow = o.verbs]]
        ELSE IF RootHandlerApplies(router, x)
        THEN RootHandler(router.rootHandler, id, x)
        ELSE SubRoutesFrom(env, id, 1, x)

\* RestRequestRouter::handleRequest
HandleRequest(env) ==
    LET r == ProcessRequest(env, 1, NewContext(env.request))
    IN  IF r.mr = "MR_NO" THEN [r EXCEPT !.x = Send(@, 404)] ELSE r

(***************************************************************************)
(* The route tree and the requests given to it.                            *)
(***************************************************************************)

\* RestRequestRouter()
NewRouter == [rootHandler |-> "none", terminal |-> FALSE, subRoutes |-> <<>>]

\* RestRequestRouter(processRequest, description, terminal, argHelp)
HandlerRouter(cb, terminal) ==
    [rootHandler |-> cb, terminal |-> terminal, subRoutes |-> <<>>]

NoRouterRequest == [verb |-> "GET", resource |-> <<>>, params |-> {}, header |-> {}]

\* The root router before any route is added.  routers[1] is the root;
\* request, mr and out are the last request handled, what processRequest
\* returned for it, and the context and connection it left.
RouterInit ==
    [ routers |-> <<NewRouter>>, nRoutes |-> 0,
      handled |-> FALSE, threw |-> FALSE,
      request |-> NoRouterRequest, mr |-> "MR_NO",
      out |-> NewContext(NoRouterRequest) ]

\* A RestRequestParsingContext as constructed: no object; no getObject yet.
ContextInit ==
    [ objects |-> <<>>, called |-> FALSE, index |-> 0, threw |-> FALSE, obj |-> 0 ]

RouterStart == rt = RouterInit /\ ctx = ContextInit /\ json = JsonInit

\* The top-level routers built with a handler:
\* RestRequestRouter(processRequest, description, terminal, argHelp).
RootRouters ==
    {HandlerRouter(cb, terminal) :
        cb \in {"yes", "throw", "respondNo", "respondThrow"}, terminal \in BOOLEAN}

\* The routes that callers add with a callback:
\* addRoute(path, filter, description, cb, argHelp, extractObject).
LeafRoutes ==
    { [path |-> PathString(<<"a">>), filter |-> {},
       extractObject |-> "none", cb |-> "yes"],
      [path |-> PathString(<<"a">>), filter |-> {"GET"},
       extractObject |-> "push", cb |-> "no"],
      [path |-> PathString(<<"a", "b">>), filter |-> {},
       extractObject |-> "none", cb |-> "async"],
      [path |-> PathString(<<"a">>), filter |-> {"PUT"},
       extractObject |-> "none", cb |-> "error"],
      [path |-> PathString(<<"b">>), filter |-> {},
       extractObject |-> "none", cb |-> "throw"],
      [path |-> Rx(<<"a">>, 1), filter |-> {},
       extractObject |-> "push", cb |-> "yes"],
      [path |-> PathString(<<"a">>), filter |-> {"q=1"},
       extractObject |-> "none", cb |-> "yes"],
      [path |-> PathString(<<"a">>), filter |-> {"GET"},
       extractObject |-> "respond", cb |-> "yes"],
      [path |-> PathString(<<>>), filter |-> {},
       extractObject |-> "throw", cb |-> "yes"],
      [path |-> PathNone, filter |-> {"GET"},
       extractObject |-> "none", cb |-> "yes"] }

\* The sub-routers that callers add:
\* addSubRouter(path, description, extractObject).
SubRouters ==
    { [path |-> PathString(<<"a">>), extractObject |-> "push"],
      [path |-> Rx(<<>>, 1), extractObject |-> "none"] }

\* The route tree with one more route on router id.
WithRoute(R, id, route, router) ==
    [R EXCEPT !.routers = Append([@ EXCEPT ![id].subRoutes =
                                      Append(@, [route EXCEPT !.router = Len(R.routers) + 1])],
                                 router),
              !.nRoutes = @ + 1]

RBegin(R) ==
    [R EXCEPT !.handled = FALSE, !.threw = FALSE,
              !.request = NoRouterRequest, !.mr = "MR_NO",
              !.out = NewContext(NoRouterRequest)]

\* RestRequestRouter::addRoute with a callback: a terminal router for the
\* callback, unless this router has a root handler.  The route tree is built
\* before requests are handled, and between them.
AddRoute(id, k) ==
    /\ ~rt.handled
    /\ rt.nRoutes < MaxRoutes
    /\ id \in 1..Len(rt.routers)
    /\ rt' = IF rt.routers[id].rootHandler # "none"
             THEN [RBegin(rt) EXCEPT !.threw = TRUE]
             ELSE WithRoute(RBegin(rt), id,
                            [path |-> k.path,
                             verbs |-> RequestFilter(k.filter).verbs,
                             filters |-> RequestFilter(k.filter).filters,
                             extractObject |-> k.extractObject, router |-> 0],
                            HandlerRouter(k.cb, TRUE))
    /\ UNCHANGED <<parserVars, socketVars, poolVars, endpointVars, ctx, json>>

\* RestRequestRouter::addSubRouter
AddSubRouter(id, k) ==
    /\ ~rt.handled
    /\ rt.nRoutes < MaxRoutes
    /\ id \in 1..Len(rt.routers)
    /\ rt' = WithRoute(RBegin(rt), id,
                       [path |-> k.path, verbs |-> {}, filters |-> {},
                        extractObject |-> k.extractObject, router |-> 0],
                       NewRouter)
    /\ UNCHANGED <<parserVars, socketVars, poolVars, endpointVars, ctx, json>>

\* A request arrives: handleRequest(connection, request).
Request(request) ==
    /\ ~rt.handled
    /\ LET r == HandleRequest([routers |-> rt.routers, request |-> request])
       IN  rt' = [rt EXCEPT !.handled = TRUE, !.threw = (r.mr = "THROW"),
                            !.request = request, !.mr = r.mr, !.out = r.x]
    /\ UNCHANGED <<parserVars, socketVars, poolVars, endpointVars, ctx, json>>

\* handleRequest has returned: its context and the connection are gone.
RequestDone ==
    /\ rt.handled
    /\ rt' = RBegin(rt)
    /\ UNCHANGED <<parserVars, socketVars, poolVars, endpointVars, ctx, json>>

NextRouter ==
    \/ \E id \in 1..(MaxRoutes + 1), k \in LeafRoutes : AddRoute(id, k)
    \/ \E id \in 1..(MaxRoutes + 1), k \in SubRouters : AddSubRouter(id, k)
    \/ \E request \in RouterRequests : Request(request)
    \/ RequestDone

(***************************************************************************)
(* RestRequestParsingContext: the objects that extractors add and handlers *)
(* get.                                                                    *)
(***************************************************************************)

MaxObjects == 3    \* objects added to a context

\* objects[i].obj of a null pointer.
NullObj == 0

\* RestRequestParsingContext::getObject(index).  index is an int and
\* objects.size() unsigned: for index == -1 the sum is size - 1, and with no
\* object it wraps and narrows to -1.  Only index -1 is converted.
GetObject(objects, index) ==
    LET size == Len(objects)
        i == IF index = -1 THEN size + index ELSE index
    IN  IF i < 0 \/ i >= size
        THEN [threw |-> TRUE, obj |-> NullObj]
        ELSE IF objects[i + 1] = NullObj
        THEN [threw |-> TRUE, obj |-> NullObj]
        ELSE [threw |-> FALSE, obj |-> objects[i + 1]]

\* addObject(obj, deleter): obj is a new object, or a null pointer.
AddObject(isNull) ==
    /\ Len(ctx.objects) < MaxObjects
    /\ ctx' = [ContextInit EXCEPT
                  !.objects = Append(ctx.objects,
                                     IF isNull THEN NullObj ELSE Len(ctx.objects) + 1)]
    /\ UNCHANGED <<parserVars, socketVars, poolVars, endpointVars, rt, json>>

\* A handler calls getObject(index).
GetObjectCall(index) ==
    /\ LET r == GetObject(ctx.objects, index)
       IN  ctx' = [ctx EXCEPT !.called = TRUE, !.index = index,
                              !.threw = r.threw, !.obj = r.obj]
    /\ UNCHANGED <<parserVars, socketVars, poolVars, endpointVars, rt, json>>

NextContext ==
    \/ \E isNull \in BOOLEAN : AddObject(isNull)
    \/ \E index \in (-(MaxObjects + 1))..MaxObjects : GetObjectCall(index)

(***************************************************************************)
(*                            SPECIFICATIONS                               *)
(***************************************************************************)
InitParser ==
    /\ stream \in Streams
    /\ ParserStart
    /\ SocketStart
    /\ PoolStart
    /\ EndpointStart
    /\ RouterStart

SpecParser == InitParser /\ [][NextParser]_vars

\* The peer answers in chunked transfer encoding.
InitParserChunked ==
    /\ stream \in ChunkedStreams
    /\ ParserStart
    /\ SocketStart
    /\ PoolStart
    /\ EndpointStart
    /\ RouterStart

SpecParserChunked == InitParserChunked /\ [][NextParser]_vars

InitSocket ==
    /\ stream = <<>>
    /\ ParserStart
    /\ SocketStart
    /\ PoolStart
    /\ EndpointStart
    /\ RouterStart

InitPool == InitSocket

SpecPool == InitPool /\ [][NextPool]_vars

InitEndpoint == InitSocket

SpecEndpoint == InitEndpoint /\ [][NextEndpoint]_vars

SpecEndpointCalls == InitEndpoint /\ [][NextEndpointCalls]_vars

\* The endpoint under calls of notifyNewTransport and notifyCloseTransport
\* alone, those that fail included, next to the timers' registrations.
NextEndpointTransports ==
    \/ AddPeriodicCall
    \/ NewTransport
    \/ \E fd \in Fds : NewTransportOnOpenFd(fd)
    \/ NewTransportBadHandle
    \/ \E t \in 1..(MaxTransports + MaxDuplicates) : NewTransportAgain(t)
    \/ \E t \in 1..(MaxTransports + MaxDuplicates) : CloseTransportCall(t)
    \/ \E d \in {x \in ep.epollDataSet : x.fdType = "TIMER"} : StopPollingCall(d)

SpecEndpointTransports == InitEndpoint /\ [][NextEndpointTransports]_vars

InitRouter == InitSocket

SpecRouter == InitRouter /\ [][NextRouter]_vars

InitContext == InitSocket

SpecContext == InitContext /\ [][NextContext]_vars

InitJson == InitSocket

SpecJson == InitJson /\ [][NextJson]_vars

\* The top-level router is one built with a handler.
InitRouterRooted ==
    /\ stream = <<>>
    /\ ParserStart
    /\ SocketStart
    /\ PoolStart
    /\ EndpointStart
    /\ rt \in {[RouterInit EXCEPT !.routers = <<root>>] : root \in RootRouters}
    /\ ctx = ContextInit
    /\ json = JsonInit

SpecRouterRooted == InitRouterRooted /\ [][NextRouter]_vars

\* The pool with a message loop that keeps running: a request in queue_ is
\* delivered, a pending connect completes, a queued message is written and
\* the response to a request the peer has received arrives.
PoolHandlers ==
    \/ \E outs \in OutcomeSeqs, ub \in PopOutcomes : QueueEvent(outs, ub)
    \/ \E c \in Conns, r \in {"ok", "unreach", "refused"},
          outs \in DoneOutcomes, ub \in PopOutcomes :
            ConnectCompletes(c, r, outs, ub)
    \/ \E c \in Conns, ok \in BOOLEAN : WriteResult(c, ok)
    \/ \E c \in Conns, outs \in DoneOutcomes, ub \in PopOutcomes :
            ResponseDone(c, outs, ub)

SpecPoolFair == InitPool /\ [][NextPool]_vars /\ WF_vars(PoolHandlers)

\* The pool until its shutdown.
NextPoolShutdown ==
    \/ ~pool.shut /\ NextPool
    \/ Shutdown

SpecPoolShutdown == InitPool /\ [][NextPoolShutdown]_vars

\* The pool with requests whose deadline may pass and a peer that stays
\* connected.  The message loop keeps handling what is local (the queue,
\* connect results, writes); the peer answers when it likes, or never.
LocalHandlers ==
    \/ \E outs \in OutcomeSeqs, ub \in PopOutcomes : QueueEvent(outs, ub)
    \/ \E c \in Conns, r \in {"ok", "unreach", "refused"},
          outs \in DoneOutcomes, ub \in PopOutcomes :
            ConnectCompletes(c, r, outs, ub)
    \/ \E c \in Conns, ok \in BOOLEAN : WriteResult(c, ok)

NextPoolTimed ==
    \/ EnqueueRequest
    \/ PoolHandlers
    \/ \E c \in Conns : DeadlineExpires(c)

SpecPoolTimed == InitPool /\ [][NextPoolTimed]_vars /\ WF_vars(LocalHandlers)

SpecSocket == InitSocket /\ [][NextSocket]_vars

\* The socket of an owner that gave an onException callback to the
\* constructor.
InitSocketOwned ==
    /\ stream = <<>>
    /\ ParserStart
    /\ PoolStart
    /\ EndpointStart
    /\ RouterStart
    /\ sock = [SockInit EXCEPT !.onException_ = TRUE]
    /\ batch = <<>>
    /\ producer = [pc |-> "idle", msg |-> 0]
    /\ nextMsg = 1
    /\ waiter = [pc |-> "idle", old |-> "DISCONNECTED"]

SpecSocketOwned == InitSocketOwned /\ [][NextSocket]_vars

\* The socket with a well-behaved peer: one connect(), which succeeds, a
\* peer that stays up and a kernel that keeps accepting bytes.  The message
\* loop keeps calling processOne, the kernel completes what it started, and
\* a thread inside write or waitState runs on.
FirstConnect(outcome) == sock.connects = 0 /\ UserConnect(outcome)

KernelAccepts == KernelConnect("ok") \/ KernelDrain

NextSocketFair ==
    \/ \E o \in {"inProgress", "immediate"} : FirstConnect(o)
    \/ UserRequestClose
    \/ Producers
    \/ Reactor
    \/ KernelAccepts
    \/ Peer("data")
    \/ Waiters

SpecSocketFair ==
    /\ InitSocket
    /\ [][NextSocketFair]_vars
    /\ WF_vars(Reactor)
    /\ WF_vars(KernelAccepts)
    /\ WF_vars(WritePush \/ WriteCount)
    /\ WF_vars(WaitCheck \/ WaitFutex)

(***************************************************************************)
(*                              PROPERTIES                                 *)
(***************************************************************************)

\* Adjacent onData events of one response joined: the body bytes, however
\* they were cut.
RECURSIVE MergeData(_)
MergeData(ev) ==
    IF Len(ev) < 2 THEN ev
    ELSE IF ev[1][1] = "data" /\ ev[2][1] = "data"
         THEN MergeData(<<<<"data", ev[1][2] \o ev[2][2]>>>> \o SubSeq(ev, 3, Len(ev)))
         ELSE <<ev[1]>> \o MergeData(Tail(ev))

\* Number of events of kind k in ev.
RECURSIVE Count(_, _)
Count(ev, k) ==
    IF ev = <<>> THEN 0
    ELSE (IF Head(ev)[1] = k THEN 1 ELSE 0) + Count(Tail(ev), k)

\* Number of status lines in a stream.
Responses(bytes) ==
    Cardinality({i \in 1..Len(bytes) :
                    i + 4 <= Len(bytes) /\ SubSeq(bytes, i, i + 4) = HttpSlash})

\* The order of the events of responses: "out" between responses, "in"
\* inside one, "bad" once an event came out of place.
RECURSIVE Phase(_, _)
Phase(ev, ph) ==
    IF ev = <<>> \/ ph = "bad" THEN ph
    ELSE LET k == Head(ev)[1]
         IN  Phase(Tail(ev),
                   CASE k = "start" -> IF ph = "out" THEN "in" ELSE "bad"
                     [] k = "done" -> IF ph = "in" THEN "out" ELSE "bad"
                     [] k \in {"header", "data"} -> IF ph = "in" THEN "in" ELSE "bad"
                     [] OTHER -> ph)

\* C1: once a stream of well-formed responses has been fed completely, in
\* whatever chunks, the callbacks emitted are those of one feed of the whole
\* stream: the same onResponseStart, onHeader and onDone events with the same
\* arguments in the same order, and the same body bytes.
ChunkedFeedMatchesWholeFeed ==
    (stream \in GoodStreams /\ pending = <<>>)
        => MergeData(events) = MergeData(Feed(ParserClear, stream).ev)

\* C2: the events of each response are ordered (onResponseStart first, then
\* onHeader and onData, onDone last, nothing between an onDone and the next
\* onResponseStart), and onDone is emitted once per response: never more
\* often than the stream holds responses.
ResponseEventsOrderedDoneOnce ==
    stream \in GoodStreams
        => /\ Phase(events, "out") # "bad"
           /\ Count(events, "done") <= Responses(stream)

\* Connections with a request performed and not yet reported done, and the
\* connections on the stack of available ones.
Busy == {c \in Conns : pool.outstanding[c]}
IdleStack == {pool.avlConnections_[i] : i \in (pool.nextAvail_ + 1)..NumParallel}

\* C3: while the client runs, busy connections plus connections on the idle
\* stack are N, no connection is both on the idle stack and performing a
\* request, and no connection is twice on the idle stack.
PoolAccountsForEveryConnection ==
    Alive => /\ Cardinality(Busy) + (NumParallel - pool.nextAvail_) = NumParallel
             /\ IdleStack \cap Busy = {}
             /\ Cardinality(IdleStack) = NumParallel - pool.nextAvail_

\* A connection released and taken again serves its second request while the
\* other connection is idle again.
ConnectionReusedAfterRelease ==
    /\ Alive
    /\ Len(pool.performed) > NumParallel
    /\ Cardinality(Busy) = 1
    /\ pool.nextAvail_ = 1

\* C4: perform is never called on a connection whose previous request has
\* not reported onDone.
OneOutstandingRequestPerConnection == ~pool.overlap

\* A connection that reported onDone has been handed the next request of the
\* overflow list, while every connection is busy.
OverflowRequestPerformedOnDone ==
    /\ Alive
    /\ Len(pool.performed) > NumParallel
    /\ Cardinality(Busy) = NumParallel
    /\ \E r \in 1..MaxRequests : pool.doneCount[r] > 0

PerformedRequests == SelectSeq(pool.performed, LAMBDA r : r # NoRequest)

\* C6: requests are handed to connections in the order enqueueRequest
\* accepted them: the k-th request performed is the k-th accepted.
PerformedInAcceptanceOrder ==
    Alive => \A k \in 1..Len(PerformedRequests) : PerformedRequests[k] = k

IsPrefix(a, b) == Len(a) <= Len(b) /\ \A i \in 1..Len(a) : a[i] = b[i]
InSeq(x, q) == \E i \in 1..Len(q) : q[i] = x

\* The messages of the write-result reports, in order.
ReportedMsgs == [i \in 1..Len(sock.reports) |-> sock.reports[i][2]]

\* Message m was accepted by write and has neither been reported nor handed
\* back as lost.
InFlight(m) ==
    InSeq(m, sock.accepted) /\ ~InSeq(m, ReportedMsgs) /\ ~InSeq(m, sock.lost)

\* The socket is connected to a peer that has not gone away.
Healthy == sock.state_ = "CONNECTED" /\ sock.peer = "up" /\ ~sock.hung

\* C7: with a socket that becomes connected and a kernel that keeps accepting
\* bytes, every message write accepted is eventually reported by a write
\* result or handed back as lost (or the socket stops being connected).
NoMessageSilentlyDropped ==
    \A m \in 1..MaxMsgs : []<>(~InFlight(m) \/ ~Healthy)

\* C8 as stated: the reported messages are a prefix of the accepted ones, and
\* each report carries the byte count of its message.
ReportsArePrefixWithSizes ==
    /\ IsPrefix(ReportedMsgs, sock.accepted)
    /\ \A i \in 1..Len(sock.reports) :
          sock.reports[i][3] = MsgSize(sock.reports[i][2])

\* The accepted messages that were not handed back as lost.
AcceptedNotLost == SelectSeq(sock.accepted, LAMBDA m : ~InSeq(m, sock.lost))

\* C8 amended: the reported messages are a prefix of the accepted messages
\* that were not handed back as lost by a connection result; a report
\* without error carries the byte count of its message, a report with an
\* error the bytes sent before the error, fewer than the message has.
ReportsArePrefixOfNotLost ==
    /\ IsPrefix(ReportedMsgs, AcceptedNotLost)
    /\ \A i \in 1..Len(sock.reports) :
          IF sock.reports[i][1] = "none"
          THEN sock.reports[i][3] = MsgSize(sock.reports[i][2])
          ELSE sock.reports[i][3] < MsgSize(sock.reports[i][2])

\* A message was handed back as lost and a later one reported as written.
ReportAfterLostMessage ==
    /\ sock.lost # <<>>
    /\ \E i \in 1..Len(sock.reports) :
          /\ sock.reports[i][1] = "none"
          /\ \E j \in 1..Len(sock.lost) : sock.lost[j] < sock.reports[i][2]

\* The transitions of the documented state machine.
Documented ==
    { <<"DISCONNECTED", "CONNECTING">>, <<"CONNECTING", "CONNECTED">>,
      <<"CONNECTED", "DISCONNECTING">>, <<"CONNECTING", "DISCONNECTED">>,
      <<"CONNECTED", "DISCONNECTED">>, <<"DISCONNECTING", "DISCONNECTED">> }

\* C9: every change of state_ is a transition of the documented machine:
\* CONNECTING only from DISCONNECTED, CONNECTED only from CONNECTING,
\* DISCONNECTING only from CONNECTED, anything else a move to DISCONNECTED.
TransitionsFollowStateMachine ==
    \A i \in 1..Len(sock.trans) : sock.trans[i] \in Documented

\* requestClose found the socket CONNECTED, and the queue and the partial
\* send are empty.
ClosingDrained ==
    /\ sock.state_ = "DISCONNECTING"
    /\ sock.closeReq = "CONNECTED"
    /\ sock.threadBuffer_ = <<>>
    /\ sock.currentLine_ = 0
    /\ sock.remainingMsgs_ = 0
    /\ producer.pc = "idle"

\* C10: after requestClose on a CONNECTED socket, once the queue and the
\* partial send are empty the socket eventually is DISCONNECTED.
ClosedSocketReachesDisconnected ==
    [](ClosingDrained => <>(sock.state_ = "DISCONNECTED"))

\* The connection-result notifications of the current step that carry a
\* failure tag.
FailureTags == {"HOST_UNKNOWN", "COULD_NOT_CONNECT", "TIMEOUT"}

RECURSIVE FailureCount(_)
FailureCount(n) ==
    IF n = <<>> THEN 0
    ELSE (IF Head(n)[1] \in FailureTags THEN 1 ELSE 0) + FailureCount(Tail(n))

\* The reactor handles the writable event of a socket that is CONNECTING and
\* whose SO_ERROR is not 0.
SoErrorHandled ==
    /\ sock.state_ = "CONNECTING"
    /\ sock.conn \in {"unreach", "refused"}
    /\ batch # <<>>
    /\ Head(batch).fd = "socket"
    /\ "OUT" \in Head(batch).flags
    /\ \E rd \in {"data", "eof", "err", "none"}, err \in WriteErrors :
          Dispatch(rd, err)

\* C11: a step that handles a pending connect completed with SO_ERROR # 0,
\* or a connect() whose name resolution fails, leaves the socket DISCONNECTED
\* and delivers exactly one connection-result notification with a failure
\* tag.
ConnectFailureDisconnectsAndNotifiesOnce ==
    [][ (SoErrorHandled \/ UserConnect("hostUnknown"))
           => /\ sock'.state_ = "DISCONNECTED"
              /\ FailureCount(sock'.notified) = 1 ]_vars

\* The same for the one error code handleConnectionResult knows
\* (ENETUNREACH) and for a failed resolution.
UnreachableDisconnectsAndNotifiesOnce ==
    [][ ((SoErrorHandled /\ sock.conn = "unreach") \/ UserConnect("hostUnknown"))
           => /\ sock'.state_ = "DISCONNECTED"
              /\ FailureCount(sock'.notified) = 1 ]_vars

\* A pending connect that failed with ENETUNREACH has been reported.
UnreachableReported ==
    /\ sock.state_ = "DISCONNECTED"
    /\ sock.trans = << <<"CONNECTING", "DISCONNECTED">> >>
    /\ \E i \in 1..Len(sock.notified) : sock.notified[i][1] = "HOST_UNKNOWN"
    /\ sock.connects > 0
    /\ batch # <<>> \/ sock.sockReg = "none"

\* Connection c carries a request whose onDone has not been called, and its
\* transport is gone: the socket is DISCONNECTED.
TransportLost(c) ==
    /\ Alive
    /\ pool.outstanding[c]
    /\ pool.conn[c].state_ = "DISCONNECTED"

\* C12: when the transport of a connection with a request in flight fails,
\* the request's onDone is eventually called (and so the connection returns
\* to the pool), unless the process aborts first.
FailedTransportFailsRequest ==
    \A c \in Conns :
        [](TransportLost(c) => <>(~pool.outstanding[c] \/ ~Alive))

\* C13: a request whose deadline passed while it was in flight is eventually
\* reported done (its onDone is called), unless the process aborts first.
ExpiredRequestEventuallyFails ==
    \A r \in 1..MaxRequests :
        []((Alive /\ r \in pool.expired)
              => <>(pool.doneCount[r] > 0 \/ ~Alive))

\* C14: once shutdown has returned the overflow list is empty and every
\* request it held when shutdown was called has had its onDone called.
ShutdownNotifiesOverflow ==
    (Alive /\ pool.shut)
        => /\ pool.inThreadQueue_ = <<>>
           /\ \A r \in pool.atShutdown : pool.doneCount[r] > 0

\* Worker w is inside handleEpollEvent: the handler runs, or it has returned
\* and the registration is not yet re-armed.
InHandler(w) == ep.thread[w].pc \in {"handling", "rearm"}

\* C15: no two worker threads are inside the handler of one fd, and while a
\* worker is inside the handler of an fd the registration of that fd is not
\* armed, so the fd cannot be delivered again.
OneThreadPerRegisteredFd ==
    /\ \A w1, w2 \in Threads :
          (w1 # w2 /\ InHandler(w1) /\ InHandler(w2))
             => ep.thread[w1].ev.fd # ep.thread[w2].ev.fd
    /\ \A w \in Threads :
          InHandler(w) => ep.epoll[ep.thread[w].ev.fd].mode # "armed"

\* A worker runs the handler of a timer, whose registration is disarmed,
\* while another worker waits in epoll_wait.
HandlerRunsWhileOtherThreadWaits ==
    \E w1, w2 \in Threads :
        /\ ep.thread[w1].pc = "handling"
        /\ ep.thread[w1].ev.fdType = "TIMER"
        /\ ep.epoll[ep.thread[w1].ev.fd].mode = "idle"
        /\ ep.thread[w2].pc = "wait"

\* Worker w is inside its event loop: in epoll_wait or in a handler.
InEventLoop(w) == ep.thread[w].pc \in {"wait", "handling", "rearm"}

\* C16: when shutdown has returned no transport remains, no timer is
\* registered, every timer fd is closed, threadsActive_ is 0 and every worker
\* thread has ended; and once shutdown has closed a timer fd no worker is
\* inside its event loop.
ShutdownLeavesNothingBehind ==
    /\ ep.sd = "returned"
          => /\ ep.numTransports = 0
             /\ ep.transportMapping = {}
             /\ \A d \in ep.epollDataSet : d.fdType = "WAKEUP"
             /\ \A f \in Fds \ {WakeupFd} : ep.epoll[f].mode = "none"
             /\ ep.open = {WakeupFd}
             /\ ep.threadsActive_ = 0
             /\ \A w \in Threads : ep.thread[w].pc \in {"none", "done"}
    /\ ep.closed # {} => \A w \in Threads : ~InEventLoop(w)

\* shutdown has returned after it closed a timer fd, waited for a transport
\* to close and joined worker threads that had been running.
ShutdownReturnedAfterWork ==
    /\ ep.sd = "returned"
    /\ ep.closed # {}
    /\ ep.zombie # {}
    /\ \A w \in Threads : ep.thread[w].pc = "done"

\* C18: no two EpollData of epollDataSet have the same fd, and a
\* startPolling of an fd that has a registration throws.
RegistrationsHaveDistinctFds ==
    /\ \A d1, d2 \in ep.epollDataSet : d1.fd = d2.fd => d1 = d2
    /\ ep.dup => ep.threw

\* C17: a step of processOne that caught an exception of a handler has
\* called the owner's onException_ exactly once, and processOne has returned.
CaughtExceptionDeliveredOnce ==
    sock.caught => (sock.delivered = 1 /\ ~sock.hung)

\* processOne caught an exception of a handler and returned.
ExceptionCaughtAndReturned == sock.caught /\ ~sock.hung

\* processOne caught an exception of a handler and did not return.
ExceptionCaughtNoReturn == sock.caught /\ sock.hung

\* The routes of the root router that processRequest tried, in order.
RootTried == SelectSeq(rt.out.tried, LAMBDA p : p[1] = 1)

\* The search the claim describes, over the routes of the root router from
\* route i on: each route is processed on the context as handleRequest made
\* it and on the connection as the routes before it left it; the first
\* result other than MR_NO ends the search (a route that throws gives the
\* MR_YES of the 500 response).
RECURSIVE FirstDecisive(_, _, _)
FirstDecisive(env, i, sent) ==
    IF i > Len(env.routers[1].subRoutes) THEN [mr |-> "MR_NO", last |-> i - 1]
    ELSE LET r == RouteProcess(env, 1, i,
                               [NewContext(env.request) EXCEPT !.sent = sent])
         IN  IF r.mr = "THROW" THEN [mr |-> "MR_YES", last |-> i]
             ELSE IF r.mr \in {"MR_YES", "MR_ASYNC", "MR_ERROR"}
             THEN [mr |-> r.mr, last |-> i]
             ELSE FirstDecisive(env, i + 1, r.x.sent)

\* C19: for a request that is not OPTIONS, processRequest tries the routes
\* of the root router in insertion order, up to and including the first one
\* whose processing gives MR_YES, MR_ASYNC or MR_ERROR, tries none after it,
\* and returns that result, or MR_NO when every route gave MR_NO; the result
\* is a function of the route tree and the request.
FirstDecisiveRouteWins ==
    (rt.handled /\ rt.request.verb # "OPTIONS")
       => LET ref == FirstDecisive([routers |-> rt.routers,
                                    request |-> rt.request], 1, <<>>)
          IN  /\ rt.mr = ref.mr
              /\ RootTried = [i \in 1..ref.last |-> <<1, i>>]

\* Of three routes the first gave MR_NO, the second MR_ERROR, and the third
\* was not tried.
SearchStoppedAtSecondRoute ==
    /\ rt.handled
    /\ Len(rt.routers[1].subRoutes) = 3
    /\ RootTried = <<<<1, 1>>, <<1, 2>>>>
    /\ rt.mr = "MR_ERROR"

\* C20: every call of Route::process, whatever it returned and also when it
\* threw, left remaining, the length of resources and the length of objects
\* as they were before the call.
RouteLeavesContextAsFound ==
    \A k \in 1..Len(rt.out.calls) : rt.out.calls[k].after = rt.out.calls[k].before

\* One request in which a route changed the context and returned MR_NO,
\* another changed it and threw, and another changed it and returned MR_YES.
RoutesChangedContextInside ==
    \E k1, k2, k3 \in 1..Len(rt.out.calls) :
        /\ rt.out.calls[k1].mr = "MR_NO"
        /\ rt.out.calls[k2].mr = "THROW"
        /\ rt.out.calls[k3].mr = "MR_YES"
        /\ \A k \in {k1, k2, k3} : rt.out.calls[k].inside # rt.out.calls[k].before

(***************************************************************************)
(* C21.  A router that is terminal and has a root handler calls the        *)
(* handler only with nothing left of the path (context.remaining empty);   *)
(* and a request that no route matches, as one whose path leaves a suffix  *)
(* under a terminal route, is answered with one 404 response.              *)
(***************************************************************************)
RouterOfRoute(r) == rt.routers[rt.routers[r[1]].subRoutes[r[2]].router]

TerminalHandlerOnlyAtPathEnd ==
    rt.handled =>
        /\ \A k \in 1..Len(rt.out.invoked) :
              rt.routers[rt.out.invoked[k].router].terminal
                  => rt.out.invoked[k].remaining = <<>>
        /\ (/\ rt.request.verb # "OPTIONS"
            /\ \A k \in 1..Len(rt.out.calls) : rt.out.calls[k].mr = "MR_NO")
              => (rt.mr = "MR_NO" /\ rt.out.sent = <<404>>)

\* The path of a terminal route matched and left a suffix: its handler was
\* not called and the request was answered 404.
SuffixUnderTerminalRouteGot404 ==
    /\ rt.handled
    /\ \E k \in 1..Len(rt.out.calls) :
          /\ rt.out.calls[k].inside.remaining # <<>>
          /\ Len(rt.out.calls[k].inside.remaining) < Len(rt.request.resource)
          /\ RouterOfRoute(rt.out.calls[k].route).terminal
          /\ RouterOfRoute(rt.out.calls[k].route).rootHandler # "none"
          /\ rt.out.calls[k].mr = "MR_NO"
    /\ rt.out.invoked = <<>>
    /\ rt.out.sent = <<404>>

(***************************************************************************)
(* C22.  An exception thrown by a root handler while a request is          *)
(* processed is caught by the router: a 500 response is sent, MR_YES is    *)
(* returned and nothing is thrown out of handleRequest.                    *)
(***************************************************************************)
HandlerThrew ==
    \E k \in 1..Len(rt.out.invoked) :
        rt.routers[rt.out.invoked[k].router].rootHandler \in ThrowingKinds

HandlerExceptionCaughtByRouter ==
    (rt.handled /\ HandlerThrew) =>
        /\ ~rt.threw
        /\ rt.mr = "MR_YES"
        /\ rt.out.sent # <<>>
        /\ rt.out.sent[Len(rt.out.sent)] = 500

\* The same, for the exceptions that a route's extractObject throws.
ExtractorThrew ==
    \E k \in 1..Len(rt.out.calls) :
        /\ rt.out.calls[k].mr = "THROW"
        /\ LET r == rt.out.calls[k].route
           IN  rt.routers[r[1]].subRoutes[r[2]].extractObject = "throw"

ExtractorExceptionCaughtByRouter ==
    (rt.handled /\ ExtractorThrew) =>
        (~rt.threw /\ rt.mr = "MR_YES" /\ rt.out.sent = <<500>>)

(***************************************************************************)
(* C23.  Every request that handleRequest answers synchronously gets       *)
(* exactly one response on its connection: never none and never two, also  *)
(* when a handler sent a response and then threw or returned MR_NO.        *)
(***************************************************************************)
OneResponsePerRequest ==
    (rt.handled /\ ~rt.threw /\ rt.mr # "MR_ASYNC") => Len(rt.out.sent) = 1

(***************************************************************************)
(* C24.  An OPTIONS request is answered by the router itself with an       *)
(* Allow header that lists exactly the union of the verb sets of the       *)
(* routes whose paths, from the top-level router down, consume the whole   *)
(* path of the request: with status 200 when that union has a verb, and    *)
(* with status 400 when it has none.                                       *)
(***************************************************************************)
RECURSIVE VerbsConsuming(_, _)

\* The verbs of the routes below router id that consume all of remaining.
VerbsConsuming(id, remaining) ==
    UNION { LET route == rt.routers[id].subRoutes[i]
                m == MatchPath(route.path, [remaining |-> remaining, resources |-> <<>>])
            IN  IF ~m.matched THEN {}
                ELSE (IF m.x.remaining = <<>> THEN route.verbs ELSE {})
                         \cup VerbsConsuming(route.router, m.x.remaining)
            : i \in 1..Len(rt.routers[id].subRoutes) }

OptionsAnswered == rt.handled /\ rt.request.verb = "OPTIONS" /\ ~rt.threw

HasEq(v) == Find(Chars(v), "=") < Len(Chars(v))

RouteAt(r) == rt.routers[r[1]].subRoutes[r[2]]

ParameterFilterRouteTakesAnyVerb ==
    (rt.handled /\ rt.request.verb # "OPTIONS") =>
        \A k \in 1..Len(rt.out.calls) :
            LET c == rt.out.calls[k]
                route == RouteAt(c.route)
            IN  (/\ \A v \in route.verbs : HasEq(v)
                 /\ \A f \in route.filters : FilterMatches(f, rt.request)
                 /\ MatchPath(route.path, [remaining |-> c.before.remaining,
                                           resources |-> <<>>]).matched)
                   => c.inside.resourcesLength > c.before.resourcesLength

(***************************************************************************)
(* C26.  When a handler is called, context.resources has as many entries   *)
(* as numCapturedElements() gives in total for the path specs walked from  *)
(* the top-level router to the handler (1 for a literal, 1 plus the number *)
(* of capture groups for a regular expression), and the matched prefixes   *)
(* followed by context.remaining give back the path of the request.        *)
(***************************************************************************)
RECURSIVE CapturedInAll(_)

CapturedInAll(walk) ==
    IF walk = <<>> THEN 0
    ELSE NumCapturedElements(Head(walk)) + CapturedInAll(Tail(walk))

RECURSIVE MatchedPrefixes(_, _)

\* The whole matches among resources: the first entry that each path spec added.
MatchedPrefixes(walk, resources) ==
    IF walk = <<>> \/ resources = <<>> THEN <<>>
    ELSE Head(resources)
           \o MatchedPrefixes(Tail(walk), Drop(resources, NumCapturedElements(Head(walk))))

ResourcesCountCapturedElements ==
    rt.handled =>
        \A k \in 1..Len(rt.out.invoked) :
            LET h == rt.out.invoked[k]
            IN  /\ Len(h.resources) = CapturedInAll(h.walk)
                /\ MatchedPrefixes(h.walk, h.resources) \o h.remaining
                      = rt.request.resource

\* A handler called below a regular expression with a capture group and a
\* literal: three resources for two path specs.
HandlerBelowRegexAndLiteral ==
    /\ rt.handled
    /\ \E k \in 1..Len(rt.out.invoked) :
          LET h == rt.out.invoked[k]
          IN  /\ Len(h.walk) = 2
              /\ h.walk[1].type = "REGEX" /\ h.walk[1].caps = 1
              /\ h.walk[2].type = "STRING" /\ h.walk[2].path # <<>>
              /\ Len(h.resources) = 3

(***************************************************************************)
(* C27.  In sized mode the bytes given to onData for one response, put     *)
(* together, are the body of that response and as many as its              *)
(* Content-Length says, however the input is cut into feeds and also when  *)
(* the next response begins in the feed that ends the body.                *)
(***************************************************************************)
\* The responses that the streams of well-formed responses carry, with the
\* bodies they announce.
SizedResponses ==
    { << [wire |-> StatusOK \o CRLF, length |-> 0, body |-> <<>>] >>,
      << [wire |-> StatusOK \o HdrLen("5") \o CRLF \o <<"h", "e", "l", "l", "o">>,
          length |-> 5, body |-> <<"h", "e", "l", "l", "o">>] >>,
      << [wire |-> StatusOK \o HdrHost \o HdrLenLower("2") \o CRLF \o <<"h", "i">>,
          length |-> 2, body |-> <<"h", "i">>],
         [wire |-> Status404 \o CRLF, length |-> 0, body |-> <<>>] >>,
      << [wire |-> StatusOK \o CRLF, length |-> 0, body |-> <<>>],
         [wire |-> Status404 \o HdrLen("1") \o CRLF \o <<"x">>,
          length |-> 1, body |-> <<"x">>] >> }

RECURSIVE WireOf(_)
WireOf(rs) == IF rs = <<>> THEN <<>> ELSE Head(rs).wire \o WireOf(Tail(rs))

\* The onData bytes of each response that events reports done, in order;
\* cur collects the bytes since the last onDone.
RECURSIVE DataPerResponse(_, _)
DataPerResponse(ev, cur) ==
    IF ev = <<>> THEN (IF cur = <<>> THEN <<>> ELSE << cur >>)
    ELSE IF Head(ev)[1] = "data" THEN DataPerResponse(Tail(ev), cur \o Head(ev)[2])
    ELSE IF Head(ev)[1] = "done" THEN << cur >> \o DataPerResponse(Tail(ev), <<>>)
    ELSE DataPerResponse(Tail(ev), cur)

IsBody(b) == b # <<>>

\* The bodies of rs, and what onData was given for them.
Bodies(rs) == SelectSeq([i \in 1..Len(rs) |-> rs[i].body], IsBody)
Delivered == SelectSeq(DataPerResponse(events, <<>>), IsBody)

SizedBodyDeliveredExactly ==
    \A rs \in SizedResponses :
        (stream = WireOf(rs) /\ pending = <<>>) =>
            /\ Delivered = Bodies(rs)
            /\ \A i \in 1..Len(Delivered) :
                  \E j \in 1..Len(rs) :
                      rs[j].body = Delivered[i] /\ Len(Delivered[i]) = rs[j].length

\* One cut of the wire form of rs, at offset k inside the body of its
\* response j or at one of the body's ends: what the two feeds emit.
TwoFeeds(rs, k) ==
    LET s == WireOf(rs)
        r1 == Feed(ParserClear, SubSeq(s, 1, k))
        r2 == Feed([state_ |-> r1.state_, buffer_ |-> r1.buffer_,
                    remainingBody_ |-> r1.remainingBody_], Sub(s, k))
    IN  r1.ev \o r2.ev

BodyCuts(rs) ==
    { k \in 1..(Len(WireOf(rs)) - 1) :
        \E j \in 1..Len(rs) :
            LET end == Len(WireOf(SubSeq(rs, 1, j)))
            IN  rs[j].length > 0 /\ end - rs[j].length <= k /\ k <= end }

\* Cut inside a body only, the bodies are delivered exactly.
SizedBodyDeliveredWhenCutInBody ==
    \A rs \in SizedResponses : \A k \in BodyCuts(rs) :
        SelectSeq(DataPerResponse(TwoFeeds(rs, k), <<>>), IsBody) = Bodies(rs)

(***************************************************************************)
(* C28.  For a response with Transfer-Encoding: chunked the parser gives   *)
(* the bytes of each chunk to onData and finishes on the chunk of size     *)
(* zero: the onData bytes put together are the chunk payloads put together *)
(* ("hello world"), and onDone is reported once, after the last chunk.     *)
(***************************************************************************)
RECURSIVE AllData(_)
AllData(ev) ==
    IF ev = <<>> THEN <<>>
    ELSE (IF Head(ev)[1] = "data" THEN Head(ev)[2] ELSE <<>>) \o AllData(Tail(ev))

\* The payloads of the chunks of the stream.
ChunkPayloads ==
    IF stream = StatusOK \o HdrChunked \o CRLF \o ChunkHello \o ChunkWorld \o ChunkLast
    THEN <<"h", "e", "l", "l", "o", " ", "w", "o", "r", "l", "d">>
    ELSE <<"h", "e", "l", "l", "o">>

ChunkedBodyDelivered ==
    (stream \in ChunkedStreams /\ pending = <<>>) =>
        /\ AllData(events) = ChunkPayloads
        /\ Cardinality({i \in 1..Len(events) : events[i][1] = "done"}) = 1
        /\ events[Len(events)][1] = "done"

(***************************************************************************)
(* C29.  A syntactic violation in the input (a status line that does not   *)
(* start with HTTP/, an end of line inside a header name) fails the        *)
(* parser: the failure is reported by the terminal callback onDone with    *)
(* success = false, and later input gives no further events.               *)
(***************************************************************************)
\* Event i of the log is the terminal report onDone(false).
IsFailedDone(i) ==
    /\ events[i][1] = "done"
    /\ Len(events[i]) = 2
    /\ events[i][2] = FALSE

SyntaxErrorEndsInFailedDone ==
    stream \in BadStreams =>
        \A i \in 1..Len(events) :
            events[i][1] = "exception" =>
                /\ Len(events) = i + 1
                /\ IsFailedDone(i + 1)

\* After the violation was met, a later feed gave more events.
EventsAfterSyntaxError ==
    /\ stream \in BadStreams
    /\ \E i \in 1..Len(events) : events[i][1] = "exception" /\ i < Len(events)

(***************************************************************************)
(* C30.  getObject(index) takes every index below zero as an offset from   *)
(* the end of objects: for -size <= index < 0 it returns                   *)
(* objects[size + index], and it throws only when the position is out of   *)
(* range or the entry there is empty.                                      *)
(***************************************************************************)
\* The position that index names: from the end when below zero.
PositionOf(index) == IF index < 0 THEN Len(ctx.objects) + index ELSE index

NegativeIndexCountsFromEnd ==
    ctx.called =>
        LET pos == PositionOf(ctx.index)
            inRange == 0 <= pos /\ pos < Len(ctx.objects)
        IN  IF inRange /\ ctx.objects[pos + 1] # NullObj
            THEN ~ctx.threw /\ ctx.obj = ctx.objects[pos + 1]
            ELSE ctx.threw

\* The same, for index -1 and the indexes from zero up.
LastAndForwardIndexes ==
    (ctx.called /\ ctx.index >= -1) =>
        LET pos == PositionOf(ctx.index)
            inRange == 0 <= pos /\ pos < Len(ctx.objects)
        IN  IF inRange /\ ctx.objects[pos + 1] # NullObj
            THEN ~ctx.threw /\ ctx.obj = ctx.objects[pos + 1]
            ELSE ctx.threw

(***************************************************************************)
(* C31: teardown after requestClose waits for the queue.                   *)
(***************************************************************************)

\* The step runs doClose: it closes the wakeup fd.
TornDown == sock.wakeReg # "gone" /\ sock'.wakeReg = "gone"

\* C31: a step that runs doClose after requestClose leaves no accepted
\* message in the outbound queue and no partially sent message, whatever the
\* interleaving of the producer inside write, requestClose and the reactor.
NotTornDownWhileMessagesRemain ==
    [][ TornDown => /\ sock'.threadBuffer_ = <<>>
                    /\ sock'.currentLine_ = 0 ]_vars

(***************************************************************************)
(* C32: no timer is re-armed once shutdown has set disallowTimers_.        *)
(***************************************************************************)

\* The step arms the registration of timer fd f, which was not armed.
TimerArmed(f) ==
    /\ ep'.epoll[f].mode = "armed"
    /\ ep'.epoll[f].data.fdType = "TIMER"
    /\ ep.epoll[f].mode # "armed"

\* C32: a step taken while disallowTimers_ is set arms no timer
\* registration, whatever the interleaving of shutdown with a worker that is
\* inside handleEpollEvent for a timer.
NoTimerRearmAfterDisallow ==
    [][ ep.disallowTimers_ => \A f \in Fds : ~TimerArmed(f) ]_vars

(***************************************************************************)
(* C33: the overflow list under a synchronous failure of perform.          *)
(***************************************************************************)

\* C33: while the client runs, every request taken from the overflow list
\* was handed to perform, perform was never handed a moved-from request and
\* never the same request twice, also when connect fails inside perform and
\* handleHttpConnectionDone is entered again before pop_front.
OverflowHandedOverExactlyOnce ==
    Alive => /\ pool.dropped = {}
             /\ \A i \in 1..Len(pool.performed) : pool.performed[i] # NoRequest
             /\ \A i, j \in 1..Len(pool.performed) :
                   pool.performed[i] = pool.performed[j] => i = j

(***************************************************************************)
(* C34: handleReadReady returns.                                           *)
(***************************************************************************)

\* C34: handleReadReady returns whatever the peer did: no call of it is
\* still running, reading a socket whose peer has closed its side.
ReadReadyReturnsAfterPeerClose == ~(sock.peer = "fin" /\ sock.hung)

(***************************************************************************)
(* C35: a request waits in the overflow list only while all are busy.      *)
(***************************************************************************)

\* C35: while the client runs and the overflow list holds a request, no
\* connection is on the idle stack and every connection is busy.
OverflowOnlyWhileAllBusy ==
    (Alive /\ pool.inThreadQueue_ # <<>>)
        => /\ pool.nextAvail_ = NumParallel
           /\ IdleStack = {}
           /\ Busy = Conns

\* A request waits in the overflow list after a connection has completed a
\* request and taken the one that waited before it.
OverflowRefilledAfterCompletion ==
    /\ Alive
    /\ pool.inThreadQueue_ # <<>>
    /\ Len(pool.performed) > NumParallel
    /\ \E r \in 1..MaxRequests : pool.doneCount[r] > 0

(***************************************************************************)
(* C36: numTransports, transportMapping and the polled set agree.          *)
(***************************************************************************)

\* The TRANSPORT registrations of the polled set.
TransportRegistrations == {d \in ep.epollDataSet : d.fdType = "TRANSPORT"}

\* C36: after any sequence of notifyNewTransport and notifyCloseTransport
\* calls, failed ones included, numTransports is the number of entries of
\* transportMapping and the number of TRANSPORT registrations.
TransportCountsAgree ==
    /\ ep.numTransports = Cardinality(ep.transportMapping)
    /\ ep.numTransports = Cardinality(TransportRegistrations)

(***************************************************************************)
(* C37: nothing stays queued across a disconnection.                       *)
(***************************************************************************)

\* The step just taken ran handleDisconnection on a socket that was
\* CONNECTED or DISCONNECTING (a hang-up of the peer, or EPIPE in flush).
DisconnectedByPeer ==
    \E i \in 1..Len(sock.trans) :
        /\ sock.trans[i][1] \in {"CONNECTED", "DISCONNECTING"}
        /\ sock.trans[i][2] = "DISCONNECTED"

\* C37: after a disconnection, with no producer inside write, the outbound
\* queue, the pending-message counter and the partial send are empty, so
\* that no message accepted before it can go out on a later connection.
DisconnectionLeavesNothingQueued ==
    (DisconnectedByPeer /\ producer.pc = "idle")
        => /\ sock.threadBuffer_ = <<>>
           /\ sock.remainingMsgs_ = 0
           /\ sock.currentLine_ = 0

(***************************************************************************)
(* C38: a failed asynchronous connect hands the queued messages back.      *)
(***************************************************************************)

\* The step delivers a connection-result notification with a failure tag
\* whose lost-message list is msgs.
FailureNotifiedWith(msgs) ==
    \E i \in 1..Len(sock'.notified) :
        /\ sock'.notified[i][1] \in FailureTags
        /\ sock'.notified[i][2] = msgs

\* The messages of q are in the order write accepted them.
InSubmissionOrder(q) == \A i, j \in 1..Len(q) : i < j => q[i] < q[j]

\* The step leaves every message of the queue in a failure notification, in
\* submission order, and the queue and the counter empty.
QueueHandedBack ==
    /\ FailureNotifiedWith(sock.threadBuffer_)
    /\ InSubmissionOrder(sock.threadBuffer_)
    /\ sock'.threadBuffer_ = <<>>
    /\ sock'.remainingMsgs_ = 0

\* C38: a step that handles a pending connect that failed, with messages
\* queued and no producer inside write, returns every message queued while
\* CONNECTING in the lost list of the connection-result notification, in
\* submission order, and leaves the outbound queue empty and the
\* pending-message counter 0.
FailedConnectReturnsQueuedMessages ==
    [][ (SoErrorHandled /\ sock.threadBuffer_ # <<>> /\ producer.pc = "idle")
           => QueueHandedBack ]_vars

\* The same for the one error code handleConnectionResult knows
\* (ENETUNREACH).
UnreachableReturnsQueuedMessages ==
    [][ (SoErrorHandled /\ sock.conn = "unreach" /\ sock.threadBuffer_ # <<>>
            /\ producer.pc = "idle")
           => QueueHandedBack ]_vars

(***************************************************************************)
(* C39: onResponseStart gets the response's own version and code.          *)
(***************************************************************************)

\* The version token and the status code of the status lines the peer
\* sends.
StatusLines ==
    { <<SubSeq(StatusOK, 1, 8), 200>>, <<SubSeq(Status404, 1, 8), 404>> }

\* C39: every onResponseStart carries the version token and the decimal
\* status code of one status line of the stream, also for a response that
\* starts in the middle of a feed buffer.
ResponseStartCarriesOwnStatusLine ==
    \A i \in 1..Len(events) :
        events[i][1] = "start" => <<events[i][2], events[i][3]>> \in StatusLines

\* The same for the status code alone.
ResponseStartCarriesOwnCode ==
    \A i \in 1..Len(events) :
        events[i][1] = "start"
            => \E l \in StatusLines : events[i][3] = l[2]


\* C40: whatever sequence of printing calls (startObject, startMember,
\* endObject, startArray, newArrayElement, endArray, writeNull, writeBool,
\* writeString, the signed and the unsigned integer writers) the two
\* contexts are given, the text StringJsonPrintingContext has appended to its
\* string is the text StreamJsonPrintingContext has written to its stream.
StringTextIsStreamText == json.string.text = json.stream.text

\* The part of it that holds: the two texts agree after every sequence of
\* calls with no unsigned writer in it, the two paths agree after every
\* sequence, and a call throws on one context exactly when it does on the
\* other.
NoUnsignedWriterCalled ==
    \A k \in 1..Len(json.calls) : json.calls[k] \notin UnsignedWriters
TextsAgreeWithoutUnsignedWriters ==
    /\ NoUnsignedWriterCalled => json.string.text = json.stream.text
    /\ json.string.path = json.stream.path
    /\ json.string.threw = json.stream.threw

=============================================================================
